---- MODULE Spec2Model ----
(***************************************************************************)
(* Model of the jsonrpc2 connection of stefanvanburen/cells                *)
(* (internal/jsonrpc2: Conn, Call, Notify, writeMessage, readLoop,         *)
(* readFrame, HandlerFunc.Handle) and of the handler the language server   *)
(* installs on it (internal/lsp: server.handle).                           *)
(*                                                                         *)
(* Spec      : one Conn, its read loop, its callers and its peer.          *)
(* SpecFrame : the Content-Length frame codec at byte level.               *)
(***************************************************************************)
EXTENDS Integers, Sequences, FiniteSets, TLC

\* ------------------------------------------------------------------------
\* Bounds
\* ------------------------------------------------------------------------
MaxIn == 2        \* frames the peer puts on the inbound stream
MaxCalls == 2     \* Call invocations on the Conn (values taken by seq)
MaxNotify == 1    \* Notify invocations made by the callers
MaxFrames == 3    \* messages written to the stream of the frame codec

\* ------------------------------------------------------------------------
\* Error codes
\* ------------------------------------------------------------------------
CodeMethodNotFound == -32601
CodeInternalError == -32603

\* ------------------------------------------------------------------------
\* Goroutines: the callers of Call/Notify/Close and the read loop
\* ------------------------------------------------------------------------
Callers == {"c1", "c2"}
Reader == "r"
Threads == Callers \cup {Reader}

\* ------------------------------------------------------------------------
\* Ids: the id as it appears on the wire, and the decoded ID struct
\* ------------------------------------------------------------------------
\* k = "none": no "id" member; "null": JSON null; "num": unsigned integer n;
\* "str": string s; "neg": a JSON number that is not an unsigned integer
\* (negative or fractional), written -n.
NoneW == [k |-> "none", n |-> 0, s |-> ""]
NullW == [k |-> "null", n |-> 0, s |-> ""]
NumW(x) == [k |-> "num", n |-> x, s |-> ""]
StrW(x) == [k |-> "str", n |-> 0, s |-> x]
NegW(x) == [k |-> "neg", n |-> x, s |-> ""]

ZeroID == [Num |-> 0, Str |-> "", IsString |-> FALSE]

\* ID.UnmarshalJSON: try uint64 first (JSON null leaves n = 0 without an
\* error), then string; anything else is an error.
UnmarshalID(w) ==
  CASE w.k = "num" -> [ok |-> TRUE, id |-> [Num |-> w.n, Str |-> "", IsString |-> FALSE]]
    [] w.k = "null" -> [ok |-> TRUE, id |-> ZeroID]
    [] w.k = "str" -> [ok |-> TRUE, id |-> [Num |-> 0, Str |-> w.s, IsString |-> TRUE]]
    [] OTHER -> [ok |-> FALSE, id |-> ZeroID]

\* ID.MarshalJSON
MarshalID(id) == IF id.IsString THEN StrW(id.Str) ELSE NumW(id.Num)

\* ------------------------------------------------------------------------
\* Inbound frames (the JSON body of one correctly framed message)
\* ------------------------------------------------------------------------
Methods == {"initialize", "exit", "textDocument/didChange", "workspace/unsupported", "client/callback"}

ReqWireIds == {NoneW, NumW(7), StrW("a"), NegW(1)}
RespWireIds == {NumW(i) : i \in 0..(MaxCalls - 1)} \cup {StrW("a"), NullW}

\* json = FALSE: the body is not valid JSON.  method = "": no "method" member.
\* iserr: the message has an "error" member.
Garbage == [json |-> FALSE, method |-> "", id |-> NoneW, iserr |-> FALSE]
RequestFrames == {[json |-> TRUE, method |-> m, id |-> i, iserr |-> FALSE] : m \in Methods, i \in ReqWireIds}
ReplyFrames == {[json |-> TRUE, method |-> "", id |-> i, iserr |-> e] : i \in RespWireIds, e \in BOOLEAN}
Frames == RequestFrames \cup ReplyFrames \cup {Garbage}

\* A probe that takes a message with an id for a response.
HasMethodAndNoId(f) == f.json /\ f.method # "" /\ f.id.k = "none"

\* readLoop's probe: a message is a request or notification iff it has "method".
HasMethod(f) == f.json /\ f.method # ""

\* Request.UnmarshalJSON: Notif is the absence of "id"; an id that does not
\* decode is an error.
UnmarshalRequest(f) ==
  IF f.id.k = "none"
    THEN [ok |-> TRUE, Method |-> f.method, ID |-> ZeroID, Notif |-> TRUE]
    ELSE [ok |-> UnmarshalID(f.id).ok, Method |-> f.method, ID |-> UnmarshalID(f.id).id, Notif |-> FALSE]

\* json.Unmarshal into incomingResponse: an absent id leaves the zero ID.
UnmarshalResponse(f) ==
  IF f.id.k = "none"
    THEN [ok |-> TRUE, ID |-> ZeroID, iserr |-> f.iserr, wid |-> f.id]
    ELSE [ok |-> UnmarshalID(f.id).ok, ID |-> UnmarshalID(f.id).id, iserr |-> f.iserr, wid |-> f.id]

NoReq == [ok |-> FALSE, Method |-> "", ID |-> ZeroID, Notif |-> TRUE]
NoResp == [ok |-> FALSE, ID |-> ZeroID, iserr |-> FALSE, wid |-> NoneW]

\* ------------------------------------------------------------------------
\* Outbound frames
\* ------------------------------------------------------------------------
WireRequest(method, wid) == [kind |-> "req", method |-> method, id |-> wid, code |-> 0, msg |-> ""]
WireNotification(method) == [kind |-> "notif", method |-> method, id |-> NoneW, code |-> 0, msg |-> ""]
Response(id, code, msg) == [kind |-> "resp", method |-> "", id |-> MarshalID(id), code |-> code, msg |-> msg]
NoFrame == [kind |-> "", method |-> "", id |-> NoneW, code |-> 0, msg |-> ""]

\* ------------------------------------------------------------------------
\* The handler
\* ------------------------------------------------------------------------
\* What the handler function does for a method, as the set of its possible
\* behaviours: "result" returns a value, "rpcErr" returns a *jsonrpc2.Error,
\* "plainErr" returns another error, "notify" sends a notification on the
\* Conn and returns nil, "close" closes the Conn, "call" issues conn.Call.
HandlerResult == [kind |-> "result", code |-> 0, msg |-> ""]
MethodNotSupported == [kind |-> "rpcErr", code |-> CodeMethodNotFound, msg |-> "method not supported"]
FileNotOpen == [kind |-> "plainErr", code |-> 0, msg |-> "received update for file that was not open"]

handle(method) ==
  CASE method = "initialize" -> {"result"}
    [] method = "exit" -> {"close"}
    [] method = "textDocument/didChange" -> {"notify", "plainErr"}
    [] method = "client/callback" -> {"call"}
    [] OTHER -> {"rpcErr"}

\* A Handle that wraps every error, protocol Errors included.
ResponseWrappingAll(r, h) ==
  IF h.kind \in {"rpcErr", "plainErr"}
    THEN Response(r.ID, CodeInternalError, h.msg)
    ELSE Response(r.ID, 0, "")

\* HandlerFunc.Handle: the error a request's response carries.
\* errors.As keeps a *jsonrpc2.Error; anything else becomes an internal error
\* with the original message.
ResponseFor(r, h) ==
  CASE h.kind = "rpcErr" -> Response(r.ID, h.code, h.msg)
    [] h.kind = "plainErr" -> Response(r.ID, CodeInternalError, h.msg)
    [] OTHER -> Response(r.ID, 0, "")

\* ------------------------------------------------------------------------
\* State
\* ------------------------------------------------------------------------
VARIABLES
  stream,    \* the io.ReadWriteCloser: "pipe" (net.Pipe) or "stdio" (stdinout)
  nRead,     \* number of bodies readFrame has returned
  reqStream, \* those of them that have a "method" member, in stream order
  dropped,   \* ids already issued whose reply found no pending entry
  inEOF,     \* the peer has closed its end: the next read returns EOF
  rdBroken,  \* reads on the underlying stream fail (closed locally)
  rl_pc,     \* position of the read loop
  req,       \* the Request the handler is running for
  hres,      \* what the handler function returned
  rl_resp,   \* the incomingResponse the read loop is about to deliver
  rl_p,      \* the pending entry it delivers to (its call id), or -1 for nil
  handled,   \* requests passed to the handler, in invocation order
  seq,       \* Conn.seq
  pend,      \* Conn.pend: the ids that have a pending entry
  call,      \* per goroutine: the Call it is executing
  ch,        \* per call id: contents of the pending entry's channel
  chClosed,  \* per call id: the pending entry's channel has been closed
  ctxDone,   \* per goroutine: the context of its Call is done
  w,         \* per goroutine: position inside writeMessage
  wf,        \* per goroutine: the frame it is writing
  wmu,       \* Conn.wmu: the goroutine holding it, or ""
  out,       \* chunks written to the outbound stream, in order
  done,      \* Conn.done is closed
  wcClosed,  \* Conn.wc has been closed
  notifies   \* Notify invocations made so far by the callers

connVars == <<stream, nRead, reqStream, dropped, inEOF, rdBroken, rl_pc, req, hres, rl_resp, rl_p,
              handled, seq, pend, call, ch, chClosed, ctxDone, w, wf, wmu, out,
              done, wcClosed, notifies>>

\* The ids Call can draw from seq within the bound.
CallIds == 0..(MaxCalls - 1)

VARIABLES
  wire,      \* bytes written to the stream by writeMessage, in order
  sent,      \* the bodies of the messages completely written, in order
  fw_data,   \* the body writeMessage has written the header of, or <<>>
  fclosed,   \* the writing end has been closed
  rpos,      \* number of bytes readFrame calls have consumed
  recv,      \* the bodies readFrame calls have returned, in order
  fstatus    \* "ok", or how the last readFrame call failed: "err", "panic"

frameVars == <<wire, sent, fw_data, fclosed, rpos, recv, fstatus>>

VARIABLES
  served,    \* ServeStream has returned
  badFrame   \* a readFrame call returned a framing error

VARIABLES
  files,     \* server.files: per URI the *file it maps to, 0 for no entry
  heap,      \* the file objects allocated so far: [uri, version, content]
  recvd,     \* the document lifecycle messages handled so far, in order
  published, \* the publishDiagnostics notifications passed to conn.Notify
  reported,  \* the error responses written for lifecycle messages
  answers,   \* what the feature handler returned, in order
  fh         \* the feature handler in progress

docVars == <<files, heap, recvd, published, reported, answers, fh>>

VARIABLES
  rn_doc,    \* the document of the last rename or references request
  rn_offset, \* its cursor, as a byte offset into the text
  rn_method, \* "rename", "references", or "none" before the first request
  rn_ident,  \* the identifierInfo the request located
  rn_scope,  \* the scope determineIdentifierScope resolved
  rn_edits,  \* the edits, locations, highlights or range it returned
  rn_newName,\* the new name of a rename request
  rn_error,  \* the error it failed with, "" for none
  rn_count   \* the requests served so far

renameVars ==
  <<rn_doc, rn_offset, rn_method, rn_ident, rn_scope, rn_edits, rn_newName, rn_error, rn_count>>

VARIABLES
  computed   \* the computations made so far: function, input and result of each

pureVars == <<computed>>

srvVars == <<served, badFrame, docVars, renameVars, pureVars>>

IdleCall == [pc |-> "idle", id |-> 0, res |-> "none", wid |-> NoneW]

InitConn ==
  /\ stream \in {"pipe", "stdio"}
  /\ nRead = 0
  /\ reqStream = <<>>
  /\ dropped = {}
  /\ inEOF = FALSE
  /\ rdBroken = FALSE
  /\ rl_pc = "read"
  /\ req = NoReq
  /\ hres = HandlerResult
  /\ rl_resp = NoResp
  /\ rl_p = -1
  /\ handled = <<>>
  /\ seq = 0
  /\ pend = {}
  /\ call = [t \in Threads |-> IdleCall]
  /\ ch = [i \in CallIds |-> <<>>]
  /\ chClosed = [i \in CallIds |-> FALSE]
  /\ ctxDone = [t \in Threads |-> FALSE]
  /\ w = [t \in Threads |-> "idle"]
  /\ wf = [t \in Threads |-> NoFrame]
  /\ wmu = ""
  /\ out = <<>>
  /\ done = FALSE
  /\ wcClosed = FALSE
  /\ notifies = 0

\* ------------------------------------------------------------------------
\* The peer and the environment
\* ------------------------------------------------------------------------
\* The peer closes its end of the stream.
PeerClose ==
  /\ ~inEOF
  /\ inEOF' = TRUE
  /\ UNCHANGED <<srvVars, frameVars, stream, nRead, reqStream, dropped, rdBroken, rl_pc, req, hres, rl_resp, rl_p, handled,
                 seq, pend, call, ch, chClosed, ctxDone, w, wf, wmu, out, done, wcClosed, notifies>>

\* The context a Call was given is cancelled or expires.  Call looks at the
\* context only in its select, so a cancellation that comes earlier is seen
\* there and is taken here as coming when the Call waits.
CtxCancel(t) ==
  /\ call[t].pc = "wait"
  /\ ~ctxDone[t]
  /\ ctxDone' = [ctxDone EXCEPT ![t] = TRUE]
  /\ UNCHANGED <<srvVars, frameVars, stream, nRead, reqStream, dropped, inEOF, rdBroken, rl_pc, req, hres, rl_resp, rl_p, handled,
                 seq, pend, call, ch, chClosed, w, wf, wmu, out, done, wcClosed, notifies>>

\* ------------------------------------------------------------------------
\* Conn.Close
\* ------------------------------------------------------------------------
\* once.Do(close(done)); wc.Close().  Closing a net.Pipe end makes its reads
\* fail; stdinout.Close closes os.Stdout only.
\* A Close that closes wc and leaves done alone.
CloseLeavingDone ==
  /\ done' = done
  /\ wcClosed' = TRUE
  /\ rdBroken' = (rdBroken \/ stream = "pipe")

CloseEffect ==
  /\ done' = TRUE
  /\ wcClosed' = TRUE
  /\ rdBroken' = (rdBroken \/ stream = "pipe")

Close ==
  /\ ~wcClosed
  /\ CloseEffect
  /\ UNCHANGED <<srvVars, frameVars, stream, nRead, reqStream, dropped, inEOF, rl_pc, req, hres, rl_resp, rl_p, handled,
                 seq, pend, call, ch, chClosed, ctxDone, w, wf, wmu, out, notifies>>

\* ------------------------------------------------------------------------
\* Conn.writeMessage
\* ------------------------------------------------------------------------
\* A write on wc fails once wc is closed, and on a net.Pipe once the peer
\* has closed its end.
WriteFails == wcClosed \/ (stream = "pipe" /\ inEOF)

\* A writeMessage that does not wait for the mutex.
WmuIgnored == TRUE

\* c.wmu.Lock()
WmuFree == wmu = ""

WLock(t) ==
  /\ w[t] = "want"
  /\ WmuFree
  /\ wmu' = t
  /\ w' = [w EXCEPT ![t] = "hdr"]
  /\ UNCHANGED <<srvVars, frameVars, stream, nRead, reqStream, dropped, inEOF, rdBroken, rl_pc, req, hres, rl_resp, rl_p, handled,
                 seq, pend, call, ch, chClosed, ctxDone, wf, out, done, wcClosed, notifies>>

\* io.WriteString(c.wc, header)
WHeader(t) ==
  /\ w[t] = "hdr"
  /\ IF WriteFails
       THEN /\ w' = [w EXCEPT ![t] = "err"]
            /\ wmu' = ""
            /\ out' = out
       ELSE /\ w' = [w EXCEPT ![t] = "body"]
            /\ wmu' = wmu
            /\ out' = Append(out, [part |-> "hdr", by |-> t, f |-> wf[t]])
  /\ UNCHANGED <<srvVars, frameVars, stream, nRead, reqStream, dropped, inEOF, rdBroken, rl_pc, req, hres, rl_resp, rl_p, handled,
                 seq, pend, call, ch, chClosed, ctxDone, wf, done, wcClosed, notifies>>

\* c.wc.Write(data); the deferred Unlock
WBody(t) ==
  /\ w[t] = "body"
  /\ IF WriteFails
       THEN /\ w' = [w EXCEPT ![t] = "err"]
            /\ out' = out
       ELSE /\ w' = [w EXCEPT ![t] = "ok"]
            /\ out' = Append(out, [part |-> "body", by |-> t, f |-> wf[t]])
  /\ wmu' = ""
  /\ UNCHANGED <<srvVars, frameVars, stream, nRead, reqStream, dropped, inEOF, rdBroken, rl_pc, req, hres, rl_resp, rl_p, handled,
                 seq, pend, call, ch, chClosed, ctxDone, wf, done, wcClosed, notifies>>

\* ------------------------------------------------------------------------
\* Conn.Call
\* ------------------------------------------------------------------------
\* A Call that forgets c.seq++.
NextSeqStuck(s) == s

\* id := c.seq; c.seq++
NextSeq(s) == s + 1

\* The locked section that registers the pending entry.
Register(t) ==
  /\ seq < MaxCalls
  /\ seq' = NextSeq(seq)
  /\ pend' = pend \cup {seq}
  /\ ch' = [ch EXCEPT ![seq] = <<>>]
  /\ chClosed' = [chClosed EXCEPT ![seq] = FALSE]
  /\ call' = [call EXCEPT ![t] = [pc |-> "send", id |-> seq, res |-> "none", wid |-> NoneW]]
  /\ ctxDone' = [ctxDone EXCEPT ![t] = FALSE]

CallRegister(t) ==
  /\ call[t].pc \in {"idle", "returned"}
  /\ Register(t)
  /\ UNCHANGED <<srvVars, frameVars, stream, nRead, reqStream, dropped, inEOF, rdBroken, rl_pc, req, hres, rl_resp, rl_p, handled,
                 w, wf, wmu, out, done, wcClosed, notifies>>

\* json.Marshal(params) fails: the entry is deleted and the error returned.
CallMarshalErr(t) ==
  /\ call[t].pc = "send"
  /\ pend' = pend \ {call[t].id}
  /\ call' = [call EXCEPT ![t].pc = "returned", ![t].res = "marshalErr"]
  /\ UNCHANGED <<srvVars, frameVars, stream, nRead, reqStream, dropped, inEOF, rdBroken, rl_pc, req, hres, rl_resp, rl_p, handled,
                 seq, ch, chClosed, ctxDone, w, wf, wmu, out, done, wcClosed, notifies>>

\* c.writeMessage(&wireRequest{... ID: &reqID})
CallWrite(t) ==
  /\ call[t].pc = "send"
  /\ call' = [call EXCEPT ![t].pc = "sending"]
  /\ w' = [w EXCEPT ![t] = "want"]
  /\ wf' = [wf EXCEPT ![t] = WireRequest("call", NumW(call[t].id))]
  /\ UNCHANGED <<srvVars, frameVars, stream, nRead, reqStream, dropped, inEOF, rdBroken, rl_pc, req, hres, rl_resp, rl_p, handled,
                 seq, pend, ch, chClosed, ctxDone, wmu, out, done, wcClosed, notifies>>

\* writeMessage returned nil: the Call reaches its select.
CallWritten(t) ==
  /\ call[t].pc = "sending"
  /\ w[t] = "ok"
  /\ call' = [call EXCEPT ![t].pc = "wait"]
  /\ w' = [w EXCEPT ![t] = "idle"]
  /\ wf' = [wf EXCEPT ![t] = NoFrame]
  /\ UNCHANGED <<srvVars, frameVars, stream, nRead, reqStream, dropped, inEOF, rdBroken, rl_pc, req, hres, rl_resp, rl_p, handled,
                 seq, pend, ch, chClosed, ctxDone, wmu, out, done, wcClosed, notifies>>

\* writeMessage returned an error: delete(c.pend, id); return err
CallWriteErr(t) ==
  /\ call[t].pc = "sending"
  /\ w[t] = "err"
  /\ pend' = pend \ {call[t].id}
  /\ call' = [call EXCEPT ![t].pc = "returned", ![t].res = "writeErr"]
  /\ w' = [w EXCEPT ![t] = "idle"]
  /\ wf' = [wf EXCEPT ![t] = NoFrame]
  /\ UNCHANGED <<srvVars, frameVars, stream, nRead, reqStream, dropped, inEOF, rdBroken, rl_pc, req, hres, rl_resp, rl_p, handled,
                 seq, ch, chClosed, ctxDone, wmu, out, done, wcClosed, notifies>>

\* case resp := <-p.ch with a response in the channel
CallRecv(t) ==
  /\ call[t].pc = "wait"
  /\ ch[call[t].id] # <<>>
  /\ call' = [call EXCEPT ![t].pc = "returned",
                          ![t].res = IF Head(ch[call[t].id]).iserr THEN "rpcErr" ELSE "ok",
                          ![t].wid = Head(ch[call[t].id]).wid]
  /\ ch' = [ch EXCEPT ![call[t].id] = Tail(@)]
  /\ UNCHANGED <<srvVars, frameVars, stream, nRead, reqStream, dropped, inEOF, rdBroken, rl_pc, req, hres, rl_resp, rl_p, handled,
                 seq, pend, chClosed, ctxDone, w, wf, wmu, out, done, wcClosed, notifies>>

\* case resp := <-p.ch on a closed, empty channel: resp == nil, ErrClosed
CallClosed(t) ==
  /\ call[t].pc = "wait"
  /\ ch[call[t].id] = <<>>
  /\ chClosed[call[t].id]
  /\ call' = [call EXCEPT ![t].pc = "returned", ![t].res = "ErrClosed"]
  /\ UNCHANGED <<srvVars, frameVars, stream, nRead, reqStream, dropped, inEOF, rdBroken, rl_pc, req, hres, rl_resp, rl_p, handled,
                 seq, pend, ch, chClosed, ctxDone, w, wf, wmu, out, done, wcClosed, notifies>>

\* case <-ctx.Done() is selected
CallCtxDone(t) ==
  /\ call[t].pc = "wait"
  /\ ctxDone[t]
  /\ call' = [call EXCEPT ![t].pc = "cancelled"]
  /\ UNCHANGED <<srvVars, frameVars, stream, nRead, reqStream, dropped, inEOF, rdBroken, rl_pc, req, hres, rl_resp, rl_p, handled,
                 seq, pend, ch, chClosed, ctxDone, w, wf, wmu, out, done, wcClosed, notifies>>

\* A ctx.Done branch that returns without deleting the entry.
AbandonLeavingEntry(p, id) == p

\* The pending map after the ctx.Done branch's delete(c.pend, id).
AbandonPending(p, id) == p \ {id}

\* c.mu.Lock(); delete(c.pend, id); c.mu.Unlock(); return ctx.Err()
CallCtxDelete(t) ==
  /\ call[t].pc = "cancelled"
  /\ pend' = AbandonPending(pend, call[t].id)
  /\ call' = [call EXCEPT ![t].pc = "returned", ![t].res = "ctxErr"]
  /\ UNCHANGED <<srvVars, frameVars, stream, nRead, reqStream, dropped, inEOF, rdBroken, rl_pc, req, hres, rl_resp, rl_p, handled,
                 seq, ch, chClosed, ctxDone, w, wf, wmu, out, done, wcClosed, notifies>>

\* ------------------------------------------------------------------------
\* Conn.Notify
\* ------------------------------------------------------------------------
Notify(t) ==
  /\ call[t].pc \in {"idle", "returned"}
  /\ notifies < MaxNotify
  /\ notifies' = notifies + 1
  /\ call' = [call EXCEPT ![t] = [IdleCall EXCEPT !.pc = "notifying"]]
  /\ w' = [w EXCEPT ![t] = "want"]
  /\ wf' = [wf EXCEPT ![t] = WireNotification("notify")]
  /\ UNCHANGED <<srvVars, frameVars, stream, nRead, reqStream, dropped, inEOF, rdBroken, rl_pc, req, hres, rl_resp, rl_p, handled,
                 seq, pend, ch, chClosed, ctxDone, wmu, out, done, wcClosed>>

NotifyReturn(t) ==
  /\ call[t].pc = "notifying"
  /\ w[t] \in {"ok", "err"}
  /\ call' = [call EXCEPT ![t] = IdleCall]
  /\ w' = [w EXCEPT ![t] = "idle"]
  /\ wf' = [wf EXCEPT ![t] = NoFrame]
  /\ UNCHANGED <<srvVars, frameVars, stream, nRead, reqStream, dropped, inEOF, rdBroken, rl_pc, req, hres, rl_resp, rl_p, handled,
                 seq, pend, ch, chClosed, ctxDone, wmu, out, done, wcClosed, notifies>>

\* ------------------------------------------------------------------------
\* Conn.readLoop
\* ------------------------------------------------------------------------
\* The request list after one more handler invocation has started.
Dispatch(hs, r) == Append(hs, r)

\* p := c.pend[resp.ID.Num]: the entry the response is delivered to, -1 for nil.
Lookup(resp) == IF resp.ID.Num \in pend THEN resp.ID.Num ELSE -1

\* readFrame returned the body f: one iteration of the loop up to the handler
\* call or the end of the locked section.
RLReadFrame(f) ==
  /\ rl_pc = "read"
  /\ nRead < MaxIn
  /\ ~inEOF
  /\ ~rdBroken
  /\ nRead' = nRead + 1
  /\ reqStream' = IF f.json /\ f.method # "" THEN Append(reqStream, f) ELSE reqStream
  /\ LET r == UnmarshalRequest(f)
         resp == UnmarshalResponse(f)
     IN  IF ~f.json
           THEN UNCHANGED <<rl_pc, req, rl_resp, rl_p, handled, pend, dropped>>
           ELSE IF HasMethod(f)
             THEN IF r.ok
                    THEN /\ req' = r
                         /\ handled' = Dispatch(handled, r)
                         /\ rl_pc' = "handler"
                         /\ UNCHANGED <<rl_resp, rl_p, pend, dropped>>
                    ELSE UNCHANGED <<rl_pc, req, rl_resp, rl_p, handled, pend, dropped>>
             ELSE IF resp.ok
                    THEN /\ pend' = pend \ {resp.ID.Num}
                         /\ IF Lookup(resp) # -1
                              THEN /\ rl_p' = Lookup(resp)
                                   /\ rl_resp' = resp
                                   /\ rl_pc' = "deliver"
                                   /\ dropped' = dropped
                              ELSE /\ dropped' = IF f.id.k = "num" /\ f.id.n < seq
                                                   THEN dropped \cup {f.id.n} ELSE dropped
                                   /\ UNCHANGED <<rl_pc, rl_resp, rl_p>>
                         /\ UNCHANGED <<req, handled>>
                    ELSE UNCHANGED <<rl_pc, req, rl_resp, rl_p, handled, pend, dropped>>
  /\ UNCHANGED <<srvVars, frameVars, stream, inEOF, rdBroken, hres, seq, call, ch, chClosed, ctxDone,
                 w, wf, wmu, out, done, wcClosed, notifies>>

\* p.ch <- &resp
RLDeliver ==
  /\ rl_pc = "deliver"
  /\ Len(ch[rl_p]) < 1
  /\ ch' = [ch EXCEPT ![rl_p] = Append(@, rl_resp)]
  /\ rl_pc' = IF chClosed[rl_p] THEN "panic" ELSE "read"
  /\ rl_p' = -1
  /\ rl_resp' = NoResp
  /\ UNCHANGED <<srvVars, frameVars, stream, nRead, reqStream, dropped, inEOF, rdBroken, req, hres, handled,
                 seq, pend, call, chClosed, ctxDone, w, wf, wmu, out, done, wcClosed, notifies>>

\* readFrame returned an error (EOF, or the stream was closed locally): the
\* loop returns and the deferred function closes done.
RLReadErr ==
  /\ rl_pc = "read"
  /\ rdBroken \/ inEOF
  /\ rl_pc' = "closing"
  /\ done' = TRUE
  /\ UNCHANGED <<srvVars, frameVars, stream, nRead, reqStream, dropped, inEOF, rdBroken, req, hres, rl_resp, rl_p, handled,
                 seq, pend, call, ch, chClosed, ctxDone, w, wf, wmu, out, wcClosed, notifies>>

\* The deferred function's locked section: close and delete every entry.
RLWake ==
  /\ rl_pc = "closing"
  /\ chClosed' = [i \in CallIds |-> chClosed[i] \/ i \in pend]
  /\ pend' = {}
  /\ rl_pc' = "exited"
  /\ UNCHANGED <<srvVars, frameVars, stream, nRead, reqStream, dropped, inEOF, rdBroken, req, hres, rl_resp, rl_p, handled,
                 seq, call, ch, ctxDone, w, wf, wmu, out, done, wcClosed, notifies>>

\* ------------------------------------------------------------------------
\* HandlerFunc.Handle, called by the read loop: f(ctx, conn, req)
\* ------------------------------------------------------------------------
\* The handler function returns without using the Conn.
HandlerReturn ==
  /\ rl_pc = "handler"
  /\ \E b \in handle(req.Method) \cap {"result", "rpcErr", "plainErr"} :
       hres' = CASE b = "rpcErr" -> MethodNotSupported
                 [] b = "plainErr" -> FileNotOpen
                 [] OTHER -> HandlerResult
  /\ rl_pc' = "respond"
  /\ UNCHANGED <<srvVars, frameVars, stream, nRead, reqStream, dropped, inEOF, rdBroken, req, rl_resp, rl_p, handled,
                 seq, pend, call, ch, chClosed, ctxDone, w, wf, wmu, out, done, wcClosed, notifies>>

\* The handler function sends a notification (publishDiagnostics).
HandlerNotify ==
  /\ rl_pc = "handler"
  /\ "notify" \in handle(req.Method)
  /\ w' = [w EXCEPT ![Reader] = "want"]
  /\ wf' = [wf EXCEPT ![Reader] = WireNotification("textDocument/publishDiagnostics")]
  /\ rl_pc' = "h_notify"
  /\ UNCHANGED <<srvVars, frameVars, stream, nRead, reqStream, dropped, inEOF, rdBroken, req, hres, rl_resp, rl_p, handled,
                 seq, pend, call, ch, chClosed, ctxDone, wmu, out, done, wcClosed, notifies>>

\* conn.Notify returned (its error is discarded); the handler returns nil.
HandlerNotified ==
  /\ rl_pc = "h_notify"
  /\ w[Reader] \in {"ok", "err"}
  /\ w' = [w EXCEPT ![Reader] = "idle"]
  /\ wf' = [wf EXCEPT ![Reader] = NoFrame]
  /\ hres' = HandlerResult
  /\ rl_pc' = "respond"
  /\ UNCHANGED <<srvVars, frameVars, stream, nRead, reqStream, dropped, inEOF, rdBroken, req, rl_resp, rl_p, handled,
                 seq, pend, call, ch, chClosed, ctxDone, wmu, out, done, wcClosed, notifies>>

\* The handler function closes the Conn ("exit").
HandlerClose ==
  /\ rl_pc = "handler"
  /\ "close" \in handle(req.Method)
  /\ CloseEffect
  /\ hres' = HandlerResult
  /\ rl_pc' = "respond"
  /\ UNCHANGED <<srvVars, frameVars, stream, nRead, reqStream, dropped, inEOF, req, rl_resp, rl_p, handled,
                 seq, pend, call, ch, chClosed, ctxDone, w, wf, wmu, out, notifies>>

\* The handler function issues conn.Call on the Conn it was called from.
HandlerCall ==
  /\ rl_pc = "handler"
  /\ "call" \in handle(req.Method)
  /\ Register(Reader)
  /\ rl_pc' = "h_call"
  /\ UNCHANGED <<srvVars, frameVars, stream, nRead, reqStream, dropped, inEOF, rdBroken, req, hres, rl_resp, rl_p, handled,
                 w, wf, wmu, out, done, wcClosed, notifies>>

\* The handler's conn.Call returned; the handler returns.
HandlerCalled ==
  /\ rl_pc = "h_call"
  /\ call[Reader].pc = "returned"
  /\ call' = [call EXCEPT ![Reader] = IdleCall]
  /\ hres' = HandlerResult
  /\ rl_pc' = "respond"
  /\ UNCHANGED <<srvVars, frameVars, stream, nRead, reqStream, dropped, inEOF, rdBroken, req, rl_resp, rl_p, handled,
                 seq, pend, ch, chClosed, ctxDone, w, wf, wmu, out, done, wcClosed, notifies>>

\* After f returned: nothing for a notification, else conn.sendResponse.
Respond ==
  /\ rl_pc = "respond"
  /\ IF req.Notif
       THEN /\ rl_pc' = "read"
            /\ req' = NoReq
            /\ hres' = HandlerResult
            /\ UNCHANGED <<w, wf>>
       ELSE /\ rl_pc' = "resp_w"
            /\ w' = [w EXCEPT ![Reader] = "want"]
            /\ wf' = [wf EXCEPT ![Reader] = ResponseFor(req, hres)]
            /\ UNCHANGED <<req, hres>>
  /\ UNCHANGED <<srvVars, frameVars, stream, nRead, reqStream, dropped, inEOF, rdBroken, rl_resp, rl_p, handled,
                 seq, pend, call, ch, chClosed, ctxDone, wmu, out, done, wcClosed, notifies>>

\* sendResponse returned (its error is discarded); Handle returns to the loop.
Responded ==
  /\ rl_pc = "resp_w"
  /\ w[Reader] \in {"ok", "err"}
  /\ w' = [w EXCEPT ![Reader] = "idle"]
  /\ wf' = [wf EXCEPT ![Reader] = NoFrame]
  /\ req' = NoReq
  /\ hres' = HandlerResult
  /\ rl_pc' = "read"
  /\ UNCHANGED <<srvVars, frameVars, stream, nRead, reqStream, dropped, inEOF, rdBroken, rl_resp, rl_p, handled,
                 seq, pend, call, ch, chClosed, ctxDone, wmu, out, done, wcClosed, notifies>>

\* ------------------------------------------------------------------------
\* The frame codec: writeMessage's framing and readFrame, byte by byte
\* ------------------------------------------------------------------------
\* A byte is a one-character string; "CR" and "LF" stand for \r and \n.
ContentLengthPrefix == <<"C", "o", "n", "t", "e", "n", "t", "-", "L", "e", "n", "g", "t", "h", ":", " ">>
Digits == <<"0", "1", "2", "3", "4", "5", "6", "7", "8", "9">>

IsDigit(c) == \E d \in 1..10 : Digits[d] = c
DigitVal(c) == (CHOOSE d \in 1..10 : Digits[d] = c) - 1

\* fmt.Sprintf("%d", n) for n >= 0
RECURSIVE Itoa(_)
Itoa(n) == IF n < 10 THEN <<Digits[n + 1]>> ELSE Itoa(n \div 10) \o <<Digits[(n % 10) + 1]>>

RECURSIVE DecimalValue(_)
DecimalValue(ds) ==
  IF ds = <<>> THEN 0
  ELSE DecimalValue(SubSeq(ds, 1, Len(ds) - 1)) * 10 + DigitVal(ds[Len(ds)])

\* strconv.Atoi: an optional sign and at least one decimal digit, nothing
\* else (no range error occurs for texts this short).
Atoi(a) ==
  LET signed == a # <<>> /\ a[1] \in {"+", "-"}
      ds == IF signed THEN Tail(a) ELSE a
  IN  IF ds = <<>> \/ \E i \in 1..Len(ds) : ~IsDigit(ds[i])
        THEN [ok |-> FALSE, n |-> 0]
        ELSE [ok |-> TRUE, n |-> IF a[1] = "-" THEN 0 - DecimalValue(ds) ELSE DecimalValue(ds)]

\* A trim that removes line feeds only.
RECURSIVE TrimRightLF(_)
TrimRightLF(line) ==
  IF line # <<>> /\ line[Len(line)] = "LF"
    THEN TrimRightLF(SubSeq(line, 1, Len(line) - 1))
    ELSE line

\* strings.TrimRight(line, "\r\n")
RECURSIVE TrimRight(_)
TrimRight(line) ==
  IF line # <<>> /\ line[Len(line)] \in {"CR", "LF"}
    THEN TrimRight(SubSeq(line, 1, Len(line) - 1))
    ELSE line

HasPrefix(a, pre) == Len(a) >= Len(pre) /\ SubSeq(a, 1, Len(pre)) = pre

\* The header writeMessage writes: "Content-Length: %d\r\n\r\n"
Header(n) == ContentLengthPrefix \o Itoa(n) \o <<"CR", "LF", "CR", "LF">>

\* r.ReadString('\n'): the index of the first line feed after position p in
\* b, or 0 when there is none.
NewlineAfter(b, p) ==
  IF \E j \in (p + 1)..Len(b) : b[j] = "LF"
    THEN CHOOSE j \in (p + 1)..Len(b) : b[j] = "LF" /\ \A k \in (p + 1)..(j - 1) : b[k] # "LF"
    ELSE 0

\* readFrame's header loop from position p with contentLength cl; eof: the
\* stream ends after b.  st is "ok", "err" or "block" (waiting for bytes).
RECURSIVE ReadHeaders(_, _, _, _)
ReadHeaders(b, p, cl, eof) ==
  LET j == NewlineAfter(b, p)
      line == TrimRight(SubSeq(b, p + 1, j))
      n == Atoi(SubSeq(line, Len(ContentLengthPrefix) + 1, Len(line)))
  IN  IF j = 0
        THEN [st |-> IF eof THEN "err" ELSE "block", cl |-> cl, pos |-> p]
        ELSE IF line = <<>>
          THEN [st |-> "ok", cl |-> cl, pos |-> j]
          ELSE IF HasPrefix(line, ContentLengthPrefix)
            THEN IF n.ok THEN ReadHeaders(b, j, n.n, eof)
                         ELSE [st |-> "err", cl |-> cl, pos |-> p]
            ELSE ReadHeaders(b, j, cl, eof)

\* readFrame on the bytes b from position p: the body and the position
\* after it, an error, a panic (make with a negative length), or blocked.
ReadFrame(b, p, eof) ==
  LET h == ReadHeaders(b, p, 0, eof)
  IN  IF h.st # "ok" THEN [st |-> h.st, body |-> <<>>, pos |-> p]
      ELSE IF h.cl = 0 THEN [st |-> "err", body |-> <<>>, pos |-> p]
      ELSE IF h.cl < 0 THEN [st |-> "panic", body |-> <<>>, pos |-> p]
      ELSE IF Len(b) - h.pos >= h.cl
        THEN [st |-> "ok", body |-> SubSeq(b, h.pos + 1, h.pos + h.cl), pos |-> h.pos + h.cl]
        ELSE [st |-> IF eof THEN "err" ELSE "block", body |-> <<>>, pos |-> p]

\* The JSON texts json.Marshal hands to writeMessage in this model.
Bodies == { <<"7">>, <<"{", "}">>, <<"{", "\"", "a", "\"", ":", "n", "u", "l", "l", "}">> }

InitFrame ==
  /\ wire = <<>>
  /\ sent = <<>>
  /\ fw_data = <<>>
  /\ fclosed = FALSE
  /\ rpos = 0
  /\ recv = <<>>
  /\ fstatus = "ok"

\* writeMessage: io.WriteString(c.wc, header)
FWriteHeader(data) ==
  /\ fw_data = <<>>
  /\ ~fclosed
  /\ Len(sent) < MaxFrames
  /\ wire' = wire \o Header(Len(data))
  /\ fw_data' = data
  /\ UNCHANGED <<sent, fclosed, rpos, recv, fstatus, connVars, srvVars>>

\* writeMessage: c.wc.Write(data)
FWriteBody ==
  /\ fw_data # <<>>
  /\ ~fclosed
  /\ wire' = wire \o fw_data
  /\ sent' = Append(sent, fw_data)
  /\ fw_data' = <<>>
  /\ UNCHANGED <<fclosed, rpos, recv, fstatus, connVars, srvVars>>

\* The writing end is closed.
FClose ==
  /\ ~fclosed
  /\ fclosed' = TRUE
  /\ UNCHANGED <<wire, sent, fw_data, rpos, recv, fstatus, connVars, srvVars>>

\* One readFrame call that returns.
FRead ==
  /\ fstatus = "ok"
  /\ LET r == ReadFrame(wire, rpos, fclosed)
     IN  /\ r.st # "block"
         /\ fstatus' = r.st
         /\ IF r.st = "ok"
              THEN recv' = Append(recv, r.body) /\ rpos' = r.pos
              ELSE UNCHANGED <<recv, rpos>>
  /\ UNCHANGED <<wire, sent, fw_data, fclosed, connVars, srvVars>>

NextFrame ==
  \/ \E data \in Bodies : FWriteHeader(data)
  \/ FWriteBody
  \/ FClose
  \/ FRead

vars == <<connVars, frameVars, srvVars>>

\* ------------------------------------------------------------------------
\* The document store (server.files) and the document lifecycle handlers
\* ------------------------------------------------------------------------
MaxMsgs == 3
MaxVersion == 2
MaxHovers == 1

URIs == {"file:///a.cel", "file:///b.cel"}

\* Document texts: blank, an expression that parses and checks, one that
\* does not parse.
Texts == {"", "true", "true&&"}

\* len(content)
TextLen(content) ==
  CASE content = "" -> 0
    [] content = "true" -> 4
    [] content = "true&&" -> 6

Versions == 1..MaxVersion

\* params.ContentChanges of a didChange: no change, one whole-document
\* change, or two of them.
ChangeLists == {<<>>, <<"true&&">>, <<"true", "true&&">>}

NilFile == 0

Parses(content) == content = "true"

\* computeDiagnostics: nothing for a blank text or one without issues, else
\* the issues reported for that text.
computeDiagnostics(content) ==
  IF content = "" THEN {}
  ELSE IF ~Parses(content) THEN {<<"error", content>>}
  ELSE {}

\* The PublishDiagnosticsParams publishDiagnostics hands to conn.Notify.
publishDiagnostics(uri, version, content) ==
  [uri |-> uri, version |-> version, diagnostics |-> computeDiagnostics(content)]

IdleHandler == [pc |-> "idle", uri |-> "", off |-> 0, f |-> NilFile, guard |-> "", at |-> 0]

InitDocs ==
  /\ files = [u \in URIs |-> NilFile]
  /\ heap = <<>>
  /\ recvd = <<>>
  /\ published = <<>>
  /\ reported = <<>>
  /\ answers = <<>>
  /\ fh = IdleHandler

\* s.files[uri] = &file{uri, version, content}; publishDiagnostics
didOpen(u, v, t) ==
  /\ Len(recvd) < MaxMsgs
  /\ heap' = Append(heap, [uri |-> u, version |-> v, content |-> t])
  /\ files' = [files EXCEPT ![u] = Len(heap) + 1]
  /\ published' = Append(published, publishDiagnostics(u, v, t))
  /\ recvd' = Append(recvd, [kind |-> "didOpen", uri |-> u, version |-> v, changes |-> <<t>>])
  /\ UNCHANGED <<reported, answers, fh, served, badFrame, connVars, frameVars, renameVars, pureVars>>

\* The text a file keeps or takes from params.ContentChanges.
ChangedContent(old, cs) == IF Len(cs) > 0 THEN cs[1] ELSE old

\* f == nil: an error, which Handle turns into a response only when the
\* message has an id; otherwise the file is updated in place and published.
didChange(u, v, cs, notif) ==
  /\ Len(recvd) < MaxMsgs
  /\ recvd' = Append(recvd, [kind |-> "didChange", uri |-> u, version |-> v, changes |-> cs])
  /\ IF files[u] = NilFile
       THEN /\ reported' = IF notif THEN reported
                                    ELSE Append(reported, [uri |-> u, code |-> CodeInternalError])
            /\ UNCHANGED <<heap, published>>
       ELSE LET f == files[u]
                content == ChangedContent(heap[f].content, cs)
            IN  /\ heap' = [heap EXCEPT ![f] = [uri |-> @.uri, version |-> v, content |-> content]]
                /\ published' = Append(published, publishDiagnostics(heap[f].uri, v, content))
                /\ UNCHANGED reported
  /\ UNCHANGED <<files, answers, fh, served, badFrame, connVars, frameVars, renameVars, pureVars>>

\* delete(s.files, uri)
didClose(u) ==
  /\ Len(recvd) < MaxMsgs
  /\ files' = [files EXCEPT ![u] = NilFile]
  /\ recvd' = Append(recvd, [kind |-> "didClose", uri |-> u, version |-> 0, changes |-> <<>>])
  /\ UNCHANGED <<heap, published, reported, answers, fh, served, badFrame, connVars, frameVars, renameVars, pureVars>>

\* ------------------------------------------------------------------------
\* Feature requests
\* ------------------------------------------------------------------------
\* What a handler returns with a nil error: the value json.Marshal encodes.
Result(value) == [kind |-> "result", code |-> 0, msg |-> "", value |-> value]

\* A nil pointer or nil slice result: it is marshalled as null.
Null == "null"

\* What the caller of a feature request gets back: the response Handle
\* builds from the handler's return values.
Answer(method, u, off, at, guard, text, h) ==
  [method |-> method, uri |-> u, off |-> off, at |-> at, guard |-> guard, text |-> text,
   code |-> ResponseFor([ID |-> ZeroID], h).code,
   result |-> IF h.kind = "result" THEN h.value ELSE Null]

\* computeHover with targetOffset off: nothing when the text does not
\* parse or the offset is outside it, else the smallest hover containing the
\* offset (the texts here are covered by one keyword literal).
computeHover(content, off) ==
  IF ~Parses(content) THEN Result(Null)
  ELSE IF off < 0 \/ off >= TextLen(content) THEN Result(Null)
  ELSE Result([hover |-> content, range |-> <<0, TextLen(content)>>])

\* server.hover
hover(u, off) ==
  IF files[u] = NilFile \/ heap[files[u]].content = "" THEN Result(Null)
  ELSE computeHover(heap[files[u]].content, off)

\* computeSemanticTokens: nothing for an empty text, one that does not parse
\* or one without tokens, else the encoded tokens.
computeSemanticTokens(content) ==
  IF content = "" THEN Result(Null)
  ELSE IF ~Parses(content) THEN Result(Null)
  ELSE Result([data |-> <<0, 0, TextLen(content), "keyword", 0>>])

\* server.semanticTokensFull
semanticTokensFull(u) ==
  IF files[u] = NilFile THEN Result(Null)
  ELSE computeSemanticTokens(heap[files[u]].content)

\* server.diagnosticFull: a full report, with no items for an unknown URI.
diagnosticFull(u) ==
  IF files[u] = NilFile THEN Result([kind |-> "full", items |-> {}])
  ELSE Result([kind |-> "full", items |-> computeDiagnostics(heap[files[u]].content)])

FeatureMethods ==
  {"textDocument/hover", "textDocument/diagnostic", "textDocument/semanticTokens/full",
   "textDocument/rename", "textDocument/prepareRename", "textDocument/references",
   "textDocument/documentHighlight", "textDocument/signatureHelp"}

\* targetOffset values: before the text, its first byte, and past "true".
Offsets == {-1, 0, 4}

\* server.handle for a feature request
handleFeature(method, u, off) ==
  CASE method = "textDocument/hover" -> hover(u, off)
    [] method = "textDocument/diagnostic" -> diagnosticFull(u)
    [] method = "textDocument/semanticTokens/full" -> semanticTokensFull(u)
    [] OTHER -> MethodNotSupported

\* The read loop hands a feature request to Handle, which runs
\* server.handle and builds the response.
featureRequest(method, u, off) ==
  /\ fh.pc = "idle"
  /\ Len(answers) < MaxHovers
  /\ answers' = Append(answers, Answer(method, u, off, Len(recvd), "", "",
                                       handleFeature(method, u, off)))
  /\ UNCHANGED <<files, heap, recvd, published, reported, fh, served, badFrame,
                 connVars, frameVars, renameVars, pureVars>>

\* ------------------------------------------------------------------------
\* A feature handler (server.hover)
\* ------------------------------------------------------------------------
\* s.mu.Lock(); f := s.files[uri]; s.mu.Unlock()
hoverLookup(u, off) ==
  /\ fh.pc = "idle"
  /\ Len(answers) < MaxHovers
  /\ fh' = [pc |-> "guard", uri |-> u, off |-> off, f |-> files[u], guard |-> "", at |-> Len(recvd)]
  /\ UNCHANGED <<files, heap, recvd, published, reported, answers, served, badFrame,
                 connVars, frameVars, renameVars, pureVars>>

\* if f == nil || f.content == "" { return nil, nil }
hoverGuard ==
  /\ fh.pc = "guard"
  /\ IF fh.f = NilFile \/ heap[fh.f].content = ""
       THEN /\ answers' = Append(answers, Answer("textDocument/hover", fh.uri, fh.off, fh.at,
                                                   "", "", Result(Null)))
            /\ fh' = IdleHandler
       ELSE /\ fh' = [fh EXCEPT !.pc = "compute", !.guard = heap[fh.f].content]
            /\ UNCHANGED answers
  /\ UNCHANGED <<files, heap, recvd, published, reported, served, badFrame, connVars, frameVars, renameVars, pureVars>>

\* computeHover(f, ...): celEnv.Parse(f.content); nil when it does not parse
hoverCompute ==
  /\ fh.pc = "compute"
  /\ LET content == heap[fh.f].content
     IN  answers' = Append(answers, Answer("textDocument/hover", fh.uri, fh.off, fh.at,
                                            fh.guard, content, computeHover(content, fh.off)))
  /\ fh' = IdleHandler
  /\ UNCHANGED <<files, heap, recvd, published, reported, served, badFrame, connVars, frameVars, renameVars, pureVars>>

\* ---------------------------------------------------------------------------
\* Rename and references: locating the identifier under the cursor, resolving
\* its scope and enumerating its occurrences (internal/lsp/rename.go).
\*
\* A document is its text (a sequence of one-byte characters, offsets counted
\* from 0) and the tree celEnv.Parse returns for it: nodes[id] is the node with
\* that id, kids are its children in the order every walker of rename.go visits
\* them (call arguments, then the target of a member call; list elements; the
\* iteration range, accumulator initialiser, loop condition, loop step and
\* result of a comprehension).  The parser expands the macros, so map/all/...
\* appear as comprehension nodes; an offset range is the range of the token the
\* node was created from, and the nodes a macro expansion creates have an
\* empty range at the "(" of the macro call.  binder is where the text declares
\* a comprehension's loop variable; the tree does not record it and no
\* operator of the program reads it.
\* ---------------------------------------------------------------------------
NewLiteral(a, b) ==
  [kind |-> "Literal", name |-> <<>>, kids |-> <<>>, member |-> FALSE,
   hasOffset |-> TRUE, start |-> a, stop |-> b, binder |-> -1]

NewIdent(n, a, b) ==
  [kind |-> "Ident", name |-> n, kids |-> <<>>, member |-> FALSE,
   hasOffset |-> TRUE, start |-> a, stop |-> b, binder |-> -1]

NewList(elems, a, b) ==
  [kind |-> "List", name |-> <<>>, kids |-> elems, member |-> FALSE,
   hasOffset |-> TRUE, start |-> a, stop |-> b, binder |-> -1]

NewCall(fn, args, a, b) ==
  [kind |-> "Call", name |-> fn, kids |-> args, member |-> FALSE,
   hasOffset |-> TRUE, start |-> a, stop |-> b, binder |-> -1]

\* a member call: its kids are the arguments followed by the target
NewMemberCall(fn, argsAndTarget, a, b) ==
  [kind |-> "Call", name |-> fn, kids |-> argsAndTarget, member |-> TRUE,
   hasOffset |-> TRUE, start |-> a, stop |-> b, binder |-> -1]

NewComprehension(iterVar, parts, at, decl) ==
  [kind |-> "Comprehension", name |-> iterVar, kids |-> parts, member |-> FALSE,
   hasOffset |-> TRUE, start |-> at, stop |-> at, binder |-> decl]

AccuVar == <<"@", "r", "e", "s", "u", "l", "t">>

\* [1, 2, 3].map(x, x * 2)
DocMap ==
  [text |-> <<"[", "1", ",", " ", "2", ",", " ", "3", "]", ".", "m", "a", "p", "(", "x", ",", " ", "x", " ", "*", " ", "2", ")">>,
   root |-> 14,
   nodes |-> <<
     NewLiteral(1, 2),
     NewLiteral(4, 5),
     NewLiteral(7, 8),
     NewList(<<1, 2, 3>>, 0, 1),
     NewIdent(<<"x">>, 17, 18),
     NewLiteral(21, 22),
     NewCall(<<"_", "*", "_">>, <<5, 6>>, 19, 20),
     NewList(<<>>, 13, 13),
     NewLiteral(13, 13),
     NewIdent(AccuVar, 13, 13),
     NewList(<<7>>, 13, 13),
     NewCall(<<"_", "+", "_">>, <<10, 11>>, 13, 13),
     NewIdent(AccuVar, 13, 13),
     NewComprehension(<<"x">>, <<4, 8, 9, 12, 13>>, 13, 14) >>]

\* [[1]].map(x, x.map(x, x))
DocNested ==
  [text |-> <<"[", "[", "1", "]", "]", ".", "m", "a", "p", "(", "x", ",", " ", "x", ".", "m", "a", "p", "(", "x", ",", " ", "x", ")", ")">>,
   root |-> 19,
   nodes |-> <<
     NewLiteral(2, 3),
     NewList(<<1>>, 1, 2),
     NewList(<<2>>, 0, 1),
     NewIdent(<<"x">>, 13, 14),
     NewIdent(<<"x">>, 22, 23),
     NewList(<<>>, 18, 18),
     NewLiteral(18, 18),
     NewIdent(AccuVar, 18, 18),
     NewList(<<5>>, 18, 18),
     NewCall(<<"_", "+", "_">>, <<8, 9>>, 18, 18),
     NewIdent(AccuVar, 18, 18),
     NewComprehension(<<"x">>, <<4, 6, 7, 10, 11>>, 18, 19),
     NewList(<<>>, 9, 9),
     NewLiteral(9, 9),
     NewIdent(AccuVar, 9, 9),
     NewList(<<12>>, 9, 9),
     NewCall(<<"_", "+", "_">>, <<15, 16>>, 9, 9),
     NewIdent(AccuVar, 9, 9),
     NewComprehension(<<"x">>, <<3, 13, 14, 17, 18>>, 9, 10) >>]

\* [1].all(x, x > 0) && x > 1
DocAfter ==
  [text |-> <<"[", "1", "]", ".", "a", "l", "l", "(", "x", ",", " ", "x", " ", ">", " ", "0", ")", " ", "&", "&", " ", "x", " ", ">", " ", "1">>,
   root |-> 16,
   nodes |-> <<
     NewLiteral(1, 2),
     NewList(<<1>>, 0, 1),
     NewIdent(<<"x">>, 11, 12),
     NewLiteral(15, 16),
     NewCall(<<"_", ">", "_">>, <<3, 4>>, 13, 14),
     NewLiteral(7, 7),
     NewIdent(AccuVar, 7, 7),
     NewCall(<<"@", "n", "o", "t", "_", "s", "t", "r", "i", "c", "t", "l", "y", "_", "f", "a", "l", "s", "e">>, <<7>>, 7, 7),
     NewIdent(AccuVar, 7, 7),
     NewCall(<<"_", "&", "&", "_">>, <<9, 5>>, 7, 7),
     NewIdent(AccuVar, 7, 7),
     NewComprehension(<<"x">>, <<2, 6, 8, 10, 11>>, 7, 8),
     NewIdent(<<"x">>, 21, 22),
     NewLiteral(25, 26),
     NewCall(<<"_", ">", "_">>, <<13, 14>>, 23, 24),
     NewCall(<<"_", "&", "&", "_">>, <<12, 15>>, 18, 20) >>]

\* [1].map(x, x) + [2].map(x, x)
DocSiblings ==
  [text |-> <<"[", "1", "]", ".", "m", "a", "p", "(", "x", ",", " ", "x", ")", " ", "+", " ", "[", "2", "]", ".", "m", "a", "p", "(", "x", ",", " ", "x", ")">>,
   root |-> 21,
   nodes |-> <<
     NewLiteral(1, 2),
     NewList(<<1>>, 0, 1),
     NewIdent(<<"x">>, 11, 12),
     NewList(<<>>, 7, 7),
     NewLiteral(7, 7),
     NewIdent(AccuVar, 7, 7),
     NewList(<<3>>, 7, 7),
     NewCall(<<"_", "+", "_">>, <<6, 7>>, 7, 7),
     NewIdent(AccuVar, 7, 7),
     NewComprehension(<<"x">>, <<2, 4, 5, 8, 9>>, 7, 8),
     NewLiteral(17, 18),
     NewList(<<11>>, 16, 17),
     NewIdent(<<"x">>, 27, 28),
     NewList(<<>>, 23, 23),
     NewLiteral(23, 23),
     NewIdent(AccuVar, 23, 23),
     NewList(<<13>>, 23, 23),
     NewCall(<<"_", "+", "_">>, <<16, 17>>, 23, 23),
     NewIdent(AccuVar, 23, 23),
     NewComprehension(<<"x">>, <<12, 14, 15, 18, 19>>, 23, 24),
     NewCall(<<"_", "+", "_">>, <<10, 20>>, 14, 15) >>]

\* f(x).map(x, x)
DocCall ==
  [text |-> <<"f", "(", "x", ")", ".", "m", "a", "p", "(", "x", ",", " ", "x", ")">>,
   root |-> 10,
   nodes |-> <<
     NewIdent(<<"x">>, 2, 3),
     NewCall(<<"f">>, <<1>>, 1, 2),
     NewIdent(<<"x">>, 12, 13),
     NewList(<<>>, 8, 8),
     NewLiteral(8, 8),
     NewIdent(AccuVar, 8, 8),
     NewList(<<3>>, 8, 8),
     NewCall(<<"_", "+", "_">>, <<6, 7>>, 8, 8),
     NewIdent(AccuVar, 8, 8),
     NewComprehension(<<"x">>, <<2, 4, 5, 8, 9>>, 8, 9) >>]

\* x + y
DocTop ==
  [text |-> <<"x", " ", "+", " ", "y">>,
   root |-> 3,
   nodes |-> <<
     NewIdent(<<"x">>, 0, 1),
     NewIdent(<<"y">>, 4, 5),
     NewCall(<<"_", "+", "_">>, <<1, 2>>, 2, 3) >>]

\* x + x + x
DocSum ==
  [text |-> <<"x", " ", "+", " ", "x", " ", "+", " ", "x">>,
   root |-> 5,
   nodes |-> <<
     NewIdent(<<"x">>, 0, 1),
     NewIdent(<<"x">>, 4, 5),
     NewCall(<<"_", "+", "_">>, <<1, 2>>, 2, 3),
     NewIdent(<<"x">>, 8, 9),
     NewCall(<<"_", "+", "_">>, <<3, 4>>, 6, 7) >>]

\* f + f(x)
DocFn ==
  [text |-> <<"f", " ", "+", " ", "f", "(", "x", ")">>,
   root |-> 4,
   nodes |-> <<
     NewIdent(<<"f">>, 0, 1),
     NewIdent(<<"x">>, 6, 7),
     NewCall(<<"f">>, <<2>>, 5, 6),
     NewCall(<<"_", "+", "_">>, <<1, 3>>, 2, 3) >>]

\* x.g(y)
DocMember ==
  [text |-> <<"x", ".", "g", "(", "y", ")">>,
   root |-> 3,
   nodes |-> <<
     NewIdent(<<"x">>, 0, 1),
     NewIdent(<<"y">>, 4, 5),
     NewMemberCall(<<"g">>, <<2, 1>>, 3, 4) >>]

Docs ==
  {DocMap, DocNested, DocAfter, DocSiblings, DocCall, DocTop, DocSum, DocFn, DocMember}

IdentLetters ==
  {"a", "b", "c", "d", "e", "f", "g", "h", "i", "j", "k", "l", "m",
   "n", "o", "p", "q", "r", "s", "t", "u", "v", "w", "x", "y", "z"}

isIdentifierChar(c) ==
  c \in IdentLetters \cup {Digits[i] : i \in 1..Len(Digits)} \cup {"_"}

\* fileContent[a:b]
Slice(text, a, b) == SubSeq(text, a + 1, b)

\* strings.Index(fileContent[from:to], name) + from, or -1 when name is absent
Index(text, from, to, name) ==
  LET hits == {i \in from..(to - Len(name)) : Slice(text, i, i + Len(name)) = name}
  IN  IF hits = {} THEN -1 ELSE CHOOSE i \in hits : \A j \in hits : i <= j

\* the word-boundary test both the locator and the collectors apply
WordBounded(text, a, b) ==
  /\ (a = 0 \/ ~isIdentifierChar(text[a]))
  /\ (b >= Len(text) \/ ~isIdentifierChar(text[b + 1]))

Args(n) == IF n.member THEN SubSeq(n.kids, 1, Len(n.kids) - 1) ELSE n.kids

\* the order in which every walker of rename.go visits the tree
RECURSIVE Walk(_, _), WalkAll(_, _)
Walk(d, e) == <<e>> \o WalkAll(d, d.nodes[e].kids)
WalkAll(d, ks) ==
  IF ks = <<>> THEN <<>> ELSE Walk(d, Head(ks)) \o WalkAll(d, Tail(ks))

Visited(d, e) == {Walk(d, e)[i] : i \in 1..Len(Walk(d, e))}

NilInfo == [name |-> <<>>, exprID |-> 0, kind |-> "nil"]

CallMacros ==
  {<<"h", "a", "s">>, <<"a", "l", "l">>, <<"e", "x", "i", "s", "t", "s">>,
   <<"e", "x", "i", "s", "t", "s", "_", "o", "n", "e">>, <<"m", "a", "p">>,
   <<"f", "i", "l", "t", "e", "r">>}

isCELMacroFunction(funcName) == funcName \in CallMacros

\* the candidates one visit of findIdentifierAtPosition's walk appends
CandidatesAt(d, e, targetOffset) ==
  LET n == d.nodes[e]
      text == d.text
      isInRange ==
        IF n.hasOffset
        THEN \/ (targetOffset >= n.start /\ targetOffset < n.stop)
             \/ (n.kind = "Comprehension" /\ n.start = n.stop)
        ELSE n.kind = "Comprehension"
      funcNameStart == Index(text, n.start, n.stop, n.name)
      firstArg == d.nodes[Args(n)[1]]
      loopVarInCall == Index(text, n.start, n.stop, firstArg.name)
      loopVarStart == Index(text, n.start, Len(text), n.name)
      hit(a, nm) == a >= 0 /\ targetOffset >= a /\ targetOffset < a + Len(nm)
  IN  IF ~(isInRange /\ n.hasOffset) THEN <<>>
      ELSE CASE n.kind = "Ident" ->
                  <<[name |-> n.name, exprID |-> e, kind |-> "TopLevel"]>>
             [] n.kind = "Call" ->
                  (IF hit(funcNameStart, n.name)
                   THEN <<[name |-> n.name, exprID |-> e, kind |-> "Function"]>>
                   ELSE <<>>)
                  \o (IF /\ isCELMacroFunction(n.name) /\ Len(Args(n)) > 0
                         /\ firstArg.kind = "Ident"
                         /\ hit(loopVarInCall, firstArg.name)
                         /\ WordBounded(text, loopVarInCall,
                                        loopVarInCall + Len(firstArg.name))
                      THEN <<[name |-> firstArg.name, exprID |-> e, kind |-> "TopLevel"]>>
                      ELSE <<>>)
             [] n.kind = "Comprehension" ->
                  (IF /\ hit(loopVarStart, n.name)
                      /\ WordBounded(text, loopVarStart, loopVarStart + Len(n.name))
                   THEN <<[name |-> n.name, exprID |-> e, kind |-> "TopLevel"]>>
                   ELSE <<>>)
             [] OTHER -> <<>>

\* findIdentifierAtPosition's walk: a node without an offset range is skipped
\* with its subtree unless it is a comprehension
RECURSIVE walk(_, _, _), walkAll(_, _, _)
walk(d, e, targetOffset) ==
  IF ~d.nodes[e].hasOffset /\ d.nodes[e].kind # "Comprehension" THEN <<>>
  ELSE CandidatesAt(d, e, targetOffset) \o walkAll(d, d.nodes[e].kids, targetOffset)
walkAll(d, ks, targetOffset) ==
  IF ks = <<>> THEN <<>>
  ELSE walk(d, Head(ks), targetOffset) \o walkAll(d, Tail(ks), targetOffset)

\* the comprehensions checkWalk assigns to bestCandidate.exprID, in order: one
\* that matches is not descended into, its later siblings are still visited
RECURSIVE checkWalk(_, _, _, _), checkWalkAll(_, _, _, _)
checkWalk(d, e, name, targetOffset) ==
  LET n == d.nodes[e]
  IN  IF /\ n.kind = "Comprehension" /\ n.name = name /\ n.hasOffset
         /\ IF n.start = n.stop
            THEN targetOffset > n.start /\ targetOffset < n.start + 1000
            ELSE targetOffset >= n.start /\ targetOffset < n.stop
      THEN <<e>>
      ELSE checkWalkAll(d, n.kids, name, targetOffset)
checkWalkAll(d, ks, name, targetOffset) ==
  IF ks = <<>> THEN <<>>
  ELSE checkWalk(d, Head(ks), name, targetOffset)
       \o checkWalkAll(d, Tail(ks), name, targetOffset)

Contains(text, part) == Index(text, 0, Len(text), part) >= 0

findIdentifierAtPosition(d, targetOffset) ==
  LET candidates == walk(d, d.root, targetOffset)
      bestCandidate == candidates[Len(candidates)]
      assigned == checkWalk(d, d.root, bestCandidate.name, targetOffset)
  IN  IF candidates = <<>> THEN NilInfo
      ELSE IF /\ bestCandidate.kind = "TopLevel"
              /\ ~Contains(d.text, <<".">> \o bestCandidate.name)
              /\ assigned # <<>>
           THEN [bestCandidate EXCEPT !.exprID = assigned[Len(assigned)]]
           ELSE bestCandidate

\* the fallback of computeRename and computeReferences: the word around the
\* cursor, looked up as an identifier node whose range holds the cursor
RECURSIVE WordStart(_, _), WordEnd(_, _)
WordStart(text, i) ==
  IF i > 0 /\ isIdentifierChar(text[i]) THEN WordStart(text, i - 1) ELSE i
WordEnd(text, i) ==
  IF i < Len(text) /\ isIdentifierChar(text[i + 1]) THEN WordEnd(text, i + 1) ELSE i

findIdentifierByNameAnywhere(d, identName, targetOffset) ==
  LET order == Walk(d, d.root)
      found == {i \in 1..Len(order) :
                  d.nodes[order[i]].kind = "Ident" /\ d.nodes[order[i]].name = identName}
  IN  IF found = {} THEN NilInfo
      ELSE [name |-> identName, kind |-> "TopLevel",
            exprID |-> order[CHOOSE i \in found : \A j \in found : i <= j]]

findIdentifierByName(d, identName, targetOffset) ==
  LET order == Walk(d, d.root)
      found == {i \in 1..Len(order) :
                  LET n == d.nodes[order[i]]
                  IN  /\ n.kind = "Ident" /\ n.name = identName /\ n.hasOffset
                      /\ targetOffset >= n.start /\ targetOffset < n.stop}
  IN  IF found = {} THEN NilInfo
      ELSE [name |-> identName, kind |-> "TopLevel",
            exprID |-> order[CHOOSE i \in found : \A j \in found : i <= j]]

locate(d, targetOffset) ==
  LET identInfo == findIdentifierAtPosition(d, targetOffset)
      start == WordStart(d.text, targetOffset)
      end == WordEnd(d.text, targetOffset)
  IN  IF identInfo # NilInfo THEN identInfo
      ELSE IF start < end
           THEN findIdentifierByName(d, Slice(d.text, start, end), targetOffset)
           ELSE NilInfo

topLevelScope == [tag |-> "TopLevel", comprehensionID |-> 0]
loopVarScope(id) == [tag |-> "LoopVariable", comprehensionID |-> id]
NoScope == [tag |-> "none", comprehensionID |-> 0]

containsIdentifier(d, ks, identName, targetID) ==
  \E i \in 1..Len(WalkAll(d, ks)) :
     LET e == WalkAll(d, ks)[i]
     IN  d.nodes[e].kind = "Ident" /\ d.nodes[e].name = identName /\ e = targetID

isUsedInComprehension(d, loopVarArg, callNode) ==
  containsIdentifier(d, Tail(Args(callNode)), d.nodes[loopVarArg].name, loopVarArg)

LoopMacros == CallMacros \ {<<"h", "a", "s">>}

\* the first node of the walk that findLoopVarScope accepts, or 0
findLoopVarScope(d, exprID, identName) ==
  LET order == Walk(d, d.root)
      accepts(e) ==
        LET n == d.nodes[e]
        IN  \/ n.kind = "Comprehension" /\ n.name = identName /\ exprID = e
            \/ /\ n.kind = "Call" /\ n.name \in LoopMacros /\ Len(Args(n)) >= 2
               /\ d.nodes[Args(n)[1]].kind = "Ident"
               /\ d.nodes[Args(n)[1]].name = identName
               /\ (Args(n)[1] = exprID \/ isUsedInComprehension(d, Args(n)[1], n))
      found == {i \in 1..Len(order) : accepts(order[i])}
  IN  IF found = {} THEN 0 ELSE order[CHOOSE i \in found : \A j \in found : i <= j]

determineIdentifierScope(d, exprID, identName) ==
  IF findLoopVarScope(d, exprID, identName) # 0
  THEN loopVarScope(findLoopVarScope(d, exprID, identName))
  ELSE topLevelScope

\* the range of one edit or location; on these one-line ASCII documents its
\* line is 0 and its columns are the byte offsets
EditAt(a, b) == [start |-> a, stop |-> b]

RECURSIVE EditsOf(_, _, _)
EditsOf(d, ids, identName) ==
  IF ids = <<>> THEN <<>>
  ELSE LET n == d.nodes[Head(ids)]
       IN  (IF n.kind = "Ident" /\ n.name = identName /\ n.hasOffset
            THEN <<EditAt(n.start, n.stop)>> ELSE <<>>)
           \o EditsOf(d, Tail(ids), identName)

CollectFirstOccurrence(d, e, identName) ==
  SubSeq(EditsOf(d, Walk(d, e), identName), 1, 1)

CollectIdentifierOccurrences(d, e, identName) == EditsOf(d, Walk(d, e), identName)

collectIdentifiersInComprehension(d, e, identName) ==
  LET comp == d.nodes[e]
      firstArg == d.nodes[Args(comp)[1]]
  IN  IF Len(Args(comp)) < 2 THEN <<>>
      ELSE (IF firstArg.kind = "Ident" /\ firstArg.name = identName /\ firstArg.hasOffset
            THEN <<EditAt(firstArg.start, firstArg.stop)>> ELSE <<>>)
           \o EditsOf(d, WalkAll(d, Tail(Args(comp))), identName)

\* the declaration is looked for in the text from the end of the iteration
\* range's offset range; then every part of the comprehension is collected
collectIdentifiersInComprehensionExpr(d, e, identName) ==
  LET comp == d.nodes[e]
      IterRange == d.nodes[comp.kids[1]]
      byteStop == IF IterRange.hasOffset THEN IterRange.stop ELSE 0
      sites == {i \in byteStop..(Len(d.text) - Len(identName)) :
                  /\ Slice(d.text, i, i + Len(identName)) = identName
                  /\ WordBounded(d.text, i, i + Len(identName))}
      first == CHOOSE i \in sites : \A j \in sites : i <= j
  IN  (IF comp.name = identName /\ sites # {}
       THEN <<EditAt(first, first + Len(identName))>> ELSE <<>>)
      \o EditsOf(d, WalkAll(d, comp.kids), identName)

findComprehensionByID(d, targetID) ==
  IF targetID \in Visited(d, d.root) /\ d.nodes[targetID].kind = "Call"
  THEN targetID ELSE 0

findComprehensionExprByID(d, targetID) ==
  IF targetID \in Visited(d, d.root) /\ d.nodes[targetID].kind = "Comprehension"
  THEN targetID ELSE 0

findAllOccurrences(d, s, oldName) ==
  IF s.tag = "LoopVariable"
  THEN IF findComprehensionByID(d, s.comprehensionID) # 0
       THEN collectIdentifiersInComprehension(d, s.comprehensionID, oldName)
       ELSE IF findComprehensionExprByID(d, s.comprehensionID) # 0
            THEN collectIdentifiersInComprehensionExpr(d, s.comprehensionID, oldName)
            ELSE <<>>
  ELSE CollectIdentifierOccurrences(d, d.root, oldName)

\* the first word-bounded occurrence of the name at or after an offset, as a
\* sequence of at most one range
FirstWordFrom(d, identName, byteStop) ==
  LET sites == {i \in byteStop..(Len(d.text) - Len(identName)) :
                  /\ Slice(d.text, i, i + Len(identName)) = identName
                  /\ WordBounded(d.text, i, i + Len(identName))}
      first == CHOOSE i \in sites : \A j \in sites : i <= j
  IN  IF sites = {} THEN <<>> ELSE <<EditAt(first, first + Len(identName))>>

\* references and highlights look for the declaration only when the
\* iteration range has an offset range
collectReferencesInComprehensionExpr(d, e, identName) ==
  LET comp == d.nodes[e]
      IterRange == d.nodes[comp.kids[1]]
  IN  (IF comp.name = identName /\ IterRange.hasOffset
       THEN FirstWordFrom(d, identName, IterRange.stop) ELSE <<>>)
      \o EditsOf(d, WalkAll(d, comp.kids), identName)

collectHighlightsInComprehensionExpr(d, e, identName) ==
  LET comp == d.nodes[e]
      IterRange == d.nodes[comp.kids[1]]
  IN  (IF comp.name = identName /\ IterRange.hasOffset
       THEN FirstWordFrom(d, identName, IterRange.stop) ELSE <<>>)
      \o EditsOf(d, WalkAll(d, comp.kids), identName)

\* a declaring argument without an offset range is looked for in the text
collectHighlightsInComprehension(d, e, identName) ==
  LET comp == d.nodes[e]
      firstArg == d.nodes[Args(comp)[1]]
      loopVarIdx == Index(d.text, 0, Len(d.text), identName)
  IN  IF Len(Args(comp)) < 2 THEN <<>>
      ELSE (IF firstArg.kind = "Ident" /\ firstArg.name = identName
            THEN IF firstArg.hasOffset
                 THEN <<EditAt(firstArg.start, firstArg.stop)>>
                 ELSE IF /\ loopVarIdx >= 0
                         /\ WordBounded(d.text, loopVarIdx, loopVarIdx + Len(identName))
                      THEN <<EditAt(loopVarIdx, loopVarIdx + Len(identName))>>
                      ELSE <<>>
            ELSE <<>>)
           \o EditsOf(d, WalkAll(d, Tail(Args(comp))), identName)

findAllReferencesInTree(d, s, identName) ==
  CollectIdentifierOccurrences(d, d.root, identName)

findAllReferences(d, s, identName) ==
  IF s.tag = "LoopVariable"
  THEN IF findComprehensionByID(d, s.comprehensionID) # 0
       THEN collectIdentifiersInComprehension(d, s.comprehensionID, identName)
       ELSE IF findComprehensionExprByID(d, s.comprehensionID) # 0
            THEN collectReferencesInComprehensionExpr(d, s.comprehensionID, identName)
            ELSE <<>>
  ELSE CollectIdentifierOccurrences(d, d.root, identName)

collectHighlights(d, s, identName) ==
  IF s.tag = "LoopVariable"
  THEN IF findComprehensionByID(d, s.comprehensionID) # 0
       THEN collectHighlightsInComprehension(d, s.comprehensionID, identName)
       ELSE IF findComprehensionExprByID(d, s.comprehensionID) # 0
            THEN collectHighlightsInComprehensionExpr(d, s.comprehensionID, identName)
            ELSE <<>>
  ELSE CollectIdentifierOccurrences(d, d.root, identName)

isValidIdentifier(s) ==
  /\ Len(s) > 0
  /\ s[1] \in IdentLetters \cup {"_"}
  /\ \A i \in 2..Len(s) : isIdentifierChar(s[i])

isCELKeyword(name) ==
  name \in {<<"t", "r", "u", "e">>, <<"f", "a", "l", "s", "e">>, <<"n", "u", "l", "l">>}

NoError == ""

validateNewName(newName) ==
  IF newName = <<>> THEN "new name cannot be empty"
  ELSE IF ~isValidIdentifier(newName) THEN "invalid identifier"
  ELSE IF isCELKeyword(newName) THEN "cannot rename to CEL keyword"
  ELSE NoError

\* The new names of the rename requests: a legal one, the empty one, two
\* that are not identifiers, a literal keyword and a reserved word.
NewNames ==
  {<<"v", "a", "l", "u", "e">>, <<>>, <<"1", "x">>, <<"a", "-", "b">>,
   <<"t", "r", "u", "e">>, <<"i", "n">>}

\* How many rename, references, highlight and prepareRename requests one run
\* serves.
MaxRequests == 1

Outcome(error, info, s, ranges) ==
  [error |-> error, ident |-> info, scope |-> s, edits |-> ranges]

NoOutcome == Outcome(NoError, NilInfo, NoScope, <<>>)

\* protocol.TextEdit{Range: ..., NewText: newName} for each range collected
TextEdits(ranges, newName) ==
  [i \in 1..Len(ranges) |->
     [start |-> ranges[i].start, stop |-> ranges[i].stop, newText |-> newName]]

\* computeRename on a document that parses
renameOutcome(d, targetOffset, newName) ==
  LET info == locate(d, targetOffset)
      s == determineIdentifierScope(d, info.exprID, info.name)
  IN  IF validateNewName(newName) # NoError
      THEN Outcome(validateNewName(newName), NilInfo, NoScope, <<>>)
      ELSE IF targetOffset < 0 \/ targetOffset >= Len(d.text) \/ info = NilInfo
      THEN NoOutcome
      ELSE Outcome(NoError, info, s,
                   TextEdits(findAllOccurrences(d, s, info.name), newName))

\* computeReferences: the same resolution, but no locations for a function
referencesOutcome(d, targetOffset) ==
  LET info == locate(d, targetOffset)
      s == determineIdentifierScope(d, info.exprID, info.name)
  IN  IF targetOffset < 0 \/ targetOffset >= Len(d.text) \/ info = NilInfo
      THEN NoOutcome
      ELSE IF info.kind = "Function" THEN Outcome(NoError, info, NoScope, <<>>)
      ELSE Outcome(NoError, info, s, findAllReferences(d, s, info.name))

highlightOutcome(d, targetOffset) ==
  LET info == locate(d, targetOffset)
      s == determineIdentifierScope(d, info.exprID, info.name)
  IN  IF targetOffset < 0 \/ targetOffset >= Len(d.text) \/ info = NilInfo
      THEN NoOutcome
      ELSE Outcome(NoError, info, s, collectHighlights(d, s, info.name))

\* computePrepareRename: no fallback by name; the range returned is the
\* offset range of identInfo.exprID
prepareRenameOutcome(d, targetOffset) ==
  LET info == findIdentifierAtPosition(d, targetOffset)
      n == d.nodes[info.exprID]
  IN  IF targetOffset < 0 \/ targetOffset >= Len(d.text) \/ info = NilInfo
      THEN NoOutcome
      ELSE IF info.kind = "Function" \/ ~n.hasOffset
      THEN Outcome(NoError, info, NoScope, <<>>)
      ELSE Outcome(NoError, info, NoScope, <<EditAt(n.start, n.stop)>>)

InitRename ==
  /\ rn_doc = DocTop
  /\ rn_offset = 0
  /\ rn_method = "none"
  /\ rn_newName = <<>>
  /\ rn_error = NoError
  /\ rn_ident = NilInfo
  /\ rn_scope = NoScope
  /\ rn_edits = <<>>
  /\ rn_count = 0

Serve(methodName, d, targetOffset, newName, outcome) ==
  /\ rn_count < MaxRequests
  /\ rn_count' = rn_count + 1
  /\ rn_doc' = d
  /\ rn_offset' = targetOffset
  /\ rn_method' = methodName
  /\ rn_newName' = newName
  /\ rn_error' = outcome.error
  /\ rn_ident' = outcome.ident
  /\ rn_scope' = outcome.scope
  /\ rn_edits' = outcome.edits
  /\ UNCHANGED <<connVars, frameVars, served, badFrame, docVars, pureVars>>

computeRename(d, targetOffset, newName) ==
  Serve("rename", d, targetOffset, newName, renameOutcome(d, targetOffset, newName))

computeReferences(d, targetOffset) ==
  Serve("references", d, targetOffset, <<>>, referencesOutcome(d, targetOffset))

computeDocumentHighlight(d, targetOffset) ==
  Serve("documentHighlight", d, targetOffset, <<>>, highlightOutcome(d, targetOffset))

computePrepareRename(d, targetOffset) ==
  Serve("prepareRename", d, targetOffset, <<>>, prepareRenameOutcome(d, targetOffset))

\* ---------------------------------------------------------------------------
\* Signature help, hover and semantic tokens. The documents below carry, next
\* to the tree, the macro calls the parser recorded: the macro's name, the
\* offset of its call node (the "(") and its target.
\* ---------------------------------------------------------------------------
\* x.size()
DocSize ==
  [text |-> <<"x", ".", "s", "i", "z", "e", "(", ")">>,
   root |-> 2,
   nodes |-> <<
     NewIdent(<<"x">>, 0, 1),
     NewMemberCall(<<"s", "i", "z", "e">>, <<1>>, 6, 7) >>,
   macros |-> <<>>]

\* x + size(y)
DocPlus ==
  [text |-> <<"x", " ", "+", " ", "s", "i", "z", "e", "(", "y", ")">>,
   root |-> 4,
   nodes |-> <<
     NewIdent(<<"y">>, 9, 10),
     NewCall(<<"s", "i", "z", "e">>, <<1>>, 8, 9),
     NewIdent(<<"x">>, 0, 1),
     NewCall(<<"_", "+", "_">>, <<3, 2>>, 2, 3) >>,
   macros |-> <<>>]

\* x.matches(int(a, b), c)
DocArgs ==
  [text |-> <<"x", ".", "m", "a", "t", "c", "h", "e", "s", "(", "i", "n", "t", "(", "a", ",", " ", "b", ")", ",", " ", "c", ")">>,
   root |-> 6,
   nodes |-> <<
     NewIdent(<<"a">>, 14, 15),
     NewIdent(<<"b">>, 17, 18),
     NewCall(<<"i", "n", "t">>, <<1, 2>>, 13, 14),
     NewIdent(<<"c">>, 21, 22),
     NewIdent(<<"x">>, 0, 1),
     NewMemberCall(<<"m", "a", "t", "c", "h", "e", "s">>, <<3, 4, 5>>, 9, 10) >>,
   macros |-> <<>>]

\* [a.exists_one(x, x)].exists(y, y)
DocExists ==
  [text |-> <<"[", "a", ".", "e", "x", "i", "s", "t", "s", "_", "o", "n", "e", "(", "x", ",", " ", "x", ")", "]", ".", "e", "x", "i", "s", "t", "s", "(", "y", ",", " ", "y", ")">>,
   root |-> 23,
   nodes |-> <<
     NewIdent(<<"a">>, 1, 2),
     NewIdent(<<"x">>, 17, 18),
     NewLiteral(13, 13),
     NewLiteral(13, 13),
     NewIdent(<<"@", "r", "e", "s", "u", "l", "t">>, 13, 13),
     NewLiteral(13, 13),
     NewCall(<<"_", "+", "_">>, <<5, 6>>, 13, 13),
     NewIdent(<<"@", "r", "e", "s", "u", "l", "t">>, 13, 13),
     NewCall(<<"_", "?", "_", ":", "_">>, <<2, 7, 8>>, 13, 13),
     NewIdent(<<"@", "r", "e", "s", "u", "l", "t">>, 13, 13),
     NewLiteral(13, 13),
     NewCall(<<"_", "=", "=", "_">>, <<10, 11>>, 13, 13),
     NewComprehension(<<"x">>, <<1, 3, 4, 9, 12>>, 13, 14),
     NewList(<<13>>, 0, 1),
     NewIdent(<<"y">>, 31, 32),
     NewLiteral(27, 27),
     NewIdent(<<"@", "r", "e", "s", "u", "l", "t">>, 27, 27),
     NewCall(<<"!", "_">>, <<17>>, 27, 27),
     NewCall(<<"@", "n", "o", "t", "_", "s", "t", "r", "i", "c", "t", "l", "y", "_", "f", "a", "l", "s", "e">>, <<18>>, 27, 27),
     NewIdent(<<"@", "r", "e", "s", "u", "l", "t">>, 27, 27),
     NewCall(<<"_", "|", "|", "_">>, <<20, 15>>, 27, 27),
     NewIdent(<<"@", "r", "e", "s", "u", "l", "t">>, 27, 27),
     NewComprehension(<<"y">>, <<14, 16, 19, 21, 22>>, 27, 28) >>,
   macros |-> <<[fn |-> <<"e", "x", "i", "s", "t", "s", "_", "o", "n", "e">>, member |-> TRUE, at |-> 13, target |-> 1], [fn |-> <<"e", "x", "i", "s", "t", "s">>, member |-> TRUE, at |-> 27, target |-> 14]>>]

\* true && x.size() > 1
DocBool ==
  [text |-> <<"t", "r", "u", "e", " ", "&", "&", " ", "x", ".", "s", "i", "z", "e", "(", ")", " ", ">", " ", "1">>,
   root |-> 6,
   nodes |-> <<
     NewLiteral(0, 4),
     NewIdent(<<"x">>, 8, 9),
     NewMemberCall(<<"s", "i", "z", "e">>, <<2>>, 14, 15),
     NewLiteral(19, 20),
     NewCall(<<"_", ">", "_">>, <<3, 4>>, 17, 18),
     NewCall(<<"_", "&", "&", "_">>, <<1, 5>>, 5, 7) >>,
   macros |-> <<>>]

\* [1, 2].map(x, x * 2)
DocMapTwo ==
  [text |-> <<"[", "1", ",", " ", "2", "]", ".", "m", "a", "p", "(", "x", ",", " ", "x", " ", "*", " ", "2", ")">>,
   root |-> 13,
   nodes |-> <<
     NewLiteral(1, 2),
     NewLiteral(4, 5),
     NewList(<<1, 2>>, 0, 1),
     NewIdent(<<"x">>, 14, 15),
     NewLiteral(18, 19),
     NewCall(<<"_", "*", "_">>, <<4, 5>>, 16, 17),
     NewList(<<>>, 10, 10),
     NewLiteral(10, 10),
     NewIdent(<<"@", "r", "e", "s", "u", "l", "t">>, 10, 10),
     NewList(<<6>>, 10, 10),
     NewCall(<<"_", "+", "_">>, <<9, 10>>, 10, 10),
     NewIdent(<<"@", "r", "e", "s", "u", "l", "t">>, 10, 10),
     NewComprehension(<<"x">>, <<3, 7, 8, 11, 12>>, 10, 11) >>,
   macros |-> <<[fn |-> <<"m", "a", "p">>, member |-> TRUE, at |-> 10, target |-> 3]>>]


\* the requests of a behaviour that repeats them
MaxRepeats == 2

\* One computation: its function, input and result are recorded.
Compute(fn, input, output) ==
  /\ computed = <<>>
  /\ computed' = <<[fn |-> fn, in |-> input, out |-> output]>>
  /\ UNCHANGED <<connVars, frameVars, served, badFrame, docVars, renameVars>>

\* One of up to MaxRepeats computations.
Repeat(fn, input, output) ==
  /\ Len(computed) < MaxRepeats
  /\ computed' = Append(computed, [fn |-> fn, in |-> input, out |-> output])
  /\ UNCHANGED <<connVars, frameVars, served, badFrame, docVars, renameVars>>

\* The model's unsigned integers wrap at 2^16 where the program's uint32 wraps
\* at 2^32, which is beyond the integers of the model checker: every length,
\* offset and count of the documents is far below either.
UintWrap == 65536

\* uint32(i) for an int i
uint32(i) == i % UintWrap

\* ---------------------------------------------------------------------------
\* Offsets. A text is a sequence of bytes. The bytes of a code point outside
\* ASCII are written "e2:1", "e2:2" (a two-byte code point), "j3:1" .. "j3:3"
\* (three bytes) and "g4:1" .. "g4:4" (four bytes: a code point above U+FFFF).
\* ---------------------------------------------------------------------------
MultiByte == {"e2", "j3", "g4"}

Encode(cp) ==
  CASE cp = "e2" -> <<"e2:1", "e2:2">>
    [] cp = "j3" -> <<"j3:1", "j3:2", "j3:3">>
    [] cp = "g4" -> <<"g4:1", "g4:2", "g4:3", "g4:4">>
    [] OTHER -> <<cp>>

RuneError == "RuneError"

ContinuationBytes == {"e2:2", "j3:2", "j3:3", "g4:2", "g4:3", "g4:4"}

\* utf8.DecodeRuneInString(text[i:]) for i < len(text)
DecodeRuneInString(text, i) ==
  LET b == text[i + 1]
      leads == {cp \in MultiByte : Encode(cp)[1] = b}
  IN  IF leads # {}
      THEN LET cp == CHOOSE c \in leads : TRUE
               n == Len(Encode(cp))
           IN  IF i + n <= Len(text) /\ SubSeq(text, i + 1, i + n) = Encode(cp)
               THEN [rune |-> cp, size |-> n]
               ELSE [rune |-> RuneError, size |-> 1]
      ELSE IF b \in ContinuationBytes THEN [rune |-> RuneError, size |-> 1]
      ELSE [rune |-> b, size |-> 1]

\* utf16.RuneLen
RuneLen(r) == IF r = "g4" THEN 2 ELSE 1

\* the loop of byteOffsetToLineCol from byte i
RECURSIVE lineColFrom(_, _, _, _, _)
lineColFrom(text, offset, i, line, col) ==
  IF ~(i < offset /\ i < Len(text)) THEN <<line, col>>
  ELSE LET r == DecodeRuneInString(text, i)
       IN  IF r.rune = "\n" THEN lineColFrom(text, offset, i + r.size, uint32(line + 1), 0)
           ELSE lineColFrom(text, offset, i + r.size, line, uint32(col + RuneLen(r.rune)))

byteOffsetToLineCol(text, offset) == lineColFrom(text, offset, 0, 0, 0)

\* the loop of celRuneOffsetToByteOffset
RECURSIVE runeOffsetFrom(_, _, _, _)
runeOffsetFrom(s, runeOffset, runeIdx, byteIdx) ==
  IF ~(runeIdx < runeOffset /\ byteIdx < Len(s)) THEN byteIdx
  ELSE runeOffsetFrom(s, runeOffset, runeIdx + 1, byteIdx + DecodeRuneInString(s, byteIdx).size)

celRuneOffsetToByteOffset(s, runeOffset) == runeOffsetFrom(s, runeOffset, 0, 0)

celOffsetRangeToByteRange(exprString, start, stop) ==
  LET byteStart == celRuneOffsetToByteOffset(exprString, start)
  IN  <<byteStart, byteStart + (stop - start)>>

\* the UTF-16 length of text[i:byteEnd], as the range loop of collectToken
\* counts it
RECURSIVE utf16Length(_, _, _)
utf16Length(text, i, byteEnd) ==
  IF i >= byteEnd THEN 0
  ELSE LET r == DecodeRuneInString(SubSeq(text, 1, byteEnd), i)
       IN  uint32(RuneLen(r.rune) + utf16Length(text, i + r.size, byteEnd))

\* where the depth loop of findCallAtPosition stops: one past the parenthesis
\* that closes the open one, or the end of the text
RECURSIVE parenEndFrom(_, _, _)
parenEndFrom(text, parenEnd, depth) ==
  IF ~(parenEnd < Len(text) /\ depth > 0) THEN parenEnd
  ELSE parenEndFrom(text, parenEnd + 1,
         IF text[parenEnd + 1] = "(" THEN depth + 1
         ELSE IF text[parenEnd + 1] = ")" THEN depth - 1
         ELSE depth)

\* the comma-counting loop of countParametersBeforeCursor, from byte i
RECURSIVE countCommas(_, _, _, _, _)
countCommas(text, i, cursorOffset, depth, paramIndex) ==
  IF ~(i < Len(text) /\ i < cursorOffset) THEN paramIndex
  ELSE LET c == text[i + 1]
       IN  countCommas(text, i + 1, cursorOffset,
             IF c = "(" THEN depth + 1 ELSE IF c = ")" THEN depth - 1 ELSE depth,
             IF c = "," /\ depth = 0 THEN uint32(paramIndex + 1) ELSE paramIndex)

countParametersBeforeCursor(text, callByteStart, cursorOffset, nArgs) ==
  LET openParenIdx == Index(text, callByteStart, Len(text), <<"(">>)
      paramIndex == countCommas(text, openParenIdx + 1, cursorOffset, 0, 0)
  IN  IF openParenIdx = -1 THEN 0
      ELSE IF nArgs = 0 /\ paramIndex > 0 THEN 0
      ELSE IF paramIndex >= nArgs THEN uint32(nArgs - 1)
      ELSE paramIndex

NoCall == [call |-> 0, paramIndex |-> 0, parenStart |-> 0, parenEnd |-> 0]

\* what one visit of findCallAtPosition's walk does to the result so far
visitCall(d, e, targetOffset, best) ==
  LET n == d.nodes[e]
      byteStart == celOffsetRangeToByteRange(d.text, n.start, n.stop)[1]
      parenStart == Index(d.text, byteStart, Len(d.text), <<"(">>)
      parenEnd == parenEndFrom(d.text, parenStart + 1, 1)
  IN  IF n.kind # "Call" \/ ~n.hasOffset \/ parenStart < 0 THEN best
      ELSE IF ~(targetOffset >= parenStart /\ targetOffset < parenEnd) THEN best
      ELSE IF best.call = 0 \/ parenEnd - parenStart < best.parenEnd - best.parenStart
      THEN [call |-> e,
            paramIndex |-> countParametersBeforeCursor(d.text, parenStart, targetOffset, Len(Args(n))),
            parenStart |-> parenStart, parenEnd |-> parenEnd]
      ELSE best

RECURSIVE findCallFrom(_, _, _, _)
findCallFrom(d, order, targetOffset, best) ==
  IF order = <<>> THEN best
  ELSE findCallFrom(d, Tail(order), targetOffset, visitCall(d, Head(order), targetOffset, best))

findCallAtPosition(d, targetOffset) == findCallFrom(d, Walk(d, d.root), targetOffset, NoCall)

\* the functions of the environment the documents name: celEnv.Functions()
Functions ==
  {<<"s", "i", "z", "e">>, <<"m", "a", "t", "c", "h", "e", "s">>, <<"i", "n", "t">>,
   <<"_", "+", "_">>, <<"_", "*", "_">>, <<"_", ">", "_">>, <<"_", "&", "&", "_">>,
   <<"_", "|", "|", "_">>, <<"!", "_">>, <<"_", "?", "_", ":", "_">>, <<"_", "=", "=", "_">>,
   <<"@", "n", "o", "t", "_", "s", "t", "r", "i", "c", "t", "l", "y", "_", "f", "a", "l", "s", "e">>}

\* a nil *protocol.SignatureHelp
NoHelp == [call |-> 0, activeParameter |-> 0, parenStart |-> 0, parenEnd |-> 0]

\* computeSignatureHelp: the call whose signatures it returns and the active
\* parameter, with the parenthesised range the call was found by
signatureHelpOf(d, targetOffset) ==
  LET found == findCallAtPosition(d, targetOffset)
  IN  IF targetOffset < 0 \/ targetOffset >= Len(d.text) THEN NoHelp
      ELSE IF found.call = 0 THEN NoHelp
      ELSE IF d.nodes[found.call].name \notin Functions THEN NoHelp
      ELSE [call |-> found.call, activeParameter |-> found.paramIndex,
            parenStart |-> found.parenStart, parenEnd |-> found.parenEnd]

computeSignatureHelp(d, targetOffset) ==
  Compute("computeSignatureHelp", [doc |-> d, offset |-> targetOffset],
          signatureHelpOf(d, targetOffset))

\* the operators celOperatorSymbol knows, among the functions of the documents
Operators ==
  {<<"_", "+", "_">>, <<"_", "*", "_">>, <<"_", ">", "_">>, <<"_", "&", "&", "_">>,
   <<"_", "|", "|", "_">>, <<"!", "_">>, <<"_", "?", "_", ":", "_">>, <<"_", "=", "=", "_">>}

celOperatorSymbol(funcName) == funcName \in Operators

NoMarkdown == [kind |-> "", name |-> <<>>]

celKeywordHover(name) ==
  IF isCELKeyword(name) THEN [kind |-> "keyword", name |-> name] ELSE NoMarkdown

celFunctionHover(funcName) ==
  IF funcName \in Functions THEN [kind |-> "function", name |-> funcName] ELSE NoMarkdown

celMacroHover(macroName) == [kind |-> "macro", name |-> macroName]

\* the type of the constant a literal node holds, as the parser reads its text
LiteralType(d, n) ==
  LET text == Slice(d.text, n.start, n.stop)
  IN  IF n.stop <= n.start THEN "none"
      ELSE IF text \in {<<"t", "r", "u", "e">>, <<"f", "a", "l", "s", "e">>} THEN "Bool"
      ELSE IF text = <<"n", "u", "l", "l">> THEN "Null"
      ELSE IF Head(text) = "\"" THEN "String"
      ELSE "Int"

\* findMethodNameAfterDot: the range of methodName after the first
\* ".methodName" at or after targetByteOffset
findMethodNameAfterDot(targetByteOffset, methodName, text) ==
  LET idx == Index(text, targetByteOffset, Len(text), <<".">> \o methodName)
  IN  IF idx >= 0 THEN <<idx + 1, idx + 1 + Len(methodName)>> ELSE <<-1, -1>>

\* the range of a called name: after the dot for a member call, right before
\* the "(" for a global one; <<-1, -1>> when it is not found there
CalledNameRange(text, funcName, member, targetStart, at) ==
  IF member THEN findMethodNameAfterDot(targetStart, funcName, text)
  ELSE LET funcStart == at - Len(funcName)
           funcEnd == funcStart + Len(funcName)
       IN  IF funcStart >= 0 /\ funcEnd <= Len(text) /\ Slice(text, funcStart, funcEnd) = funcName
           THEN <<funcStart, funcEnd>> ELSE <<-1, -1>>

Target(n) == n.kids[Len(n.kids)]

\* collectHover: the hovers with the candidate appended, unless it is rejected
collectHover(text, hovers, byteStart, byteEnd, markdown) ==
  IF byteStart < 0 \/ byteEnd <= byteStart \/ byteEnd > Len(text) THEN hovers
  ELSE IF markdown = NoMarkdown THEN hovers
  ELSE Append(hovers, [byteStart |-> byteStart, byteEnd |-> byteEnd, markdown |-> markdown])

\* walkCELExprForHover from node e, appending to hovers
RECURSIVE walkCELExprForHover(_, _, _), walkAllForHover(_, _, _)
walkCELExprForHover(d, e, hovers) ==
  LET n == d.nodes[e]
      range == celOffsetRangeToByteRange(d.text, n.start, n.stop)
  IN  CASE n.kind = "Ident" ->
             IF n.hasOffset /\ isCELKeyword(n.name)
             THEN collectHover(d.text, hovers, range[1], range[2], celKeywordHover(n.name))
             ELSE hovers
        [] n.kind = "Call" ->
             LET afterTarget == IF n.member THEN walkCELExprForHover(d, Target(n), hovers) ELSE hovers
                 name == CalledNameRange(d.text, n.name, n.member,
                                         IF n.member
                           THEN celRuneOffsetToByteOffset(d.text, d.nodes[Target(n)].start) ELSE 0,
                           celRuneOffsetToByteOffset(d.text, n.start))
                 own == IF celOperatorSymbol(n.name)
                        THEN IF n.hasOffset
                             THEN collectHover(d.text, afterTarget, range[1], range[2], celFunctionHover(n.name))
                             ELSE afterTarget
                        ELSE IF ~isCELMacroFunction(n.name) /\ name[1] >= 0
                        THEN collectHover(d.text, afterTarget, name[1], name[2], celFunctionHover(n.name))
                        ELSE afterTarget
             IN  walkAllForHover(d, Args(n), own)
        [] n.kind = "Literal" ->
             IF n.hasOffset /\ range[1] >= 0 /\ range[2] <= Len(d.text)
             THEN IF LiteralType(d, n) = "Bool"
                  THEN collectHover(d.text, hovers, range[1], range[2],
                                    celKeywordHover(Slice(d.text, range[1], range[2])))
                  ELSE IF LiteralType(d, n) = "Null"
                  THEN collectHover(d.text, hovers, range[1], range[2], celKeywordHover(<<"n", "u", "l", "l">>))
                  ELSE hovers
             ELSE hovers
        [] OTHER -> walkAllForHover(d, n.kids, hovers)
walkAllForHover(d, ks, hovers) ==
  IF ks = <<>> THEN hovers
  ELSE walkAllForHover(d, Tail(ks), walkCELExprForHover(d, Head(ks), hovers))

\* collectMacroHovers, visiting the macro calls in the given order
RECURSIVE collectMacroHovers(_, _, _)
collectMacroHovers(d, order, hovers) ==
  IF order = <<>> THEN hovers
  ELSE LET m == d.macros[Head(order)]
           name == CalledNameRange(d.text, m.fn, m.member,
                     celRuneOffsetToByteOffset(d.text, d.nodes[m.target].start),
                     celRuneOffsetToByteOffset(d.text, m.at))
       IN  collectMacroHovers(d, Tail(order),
             IF isCELMacroFunction(m.fn) /\ name[1] >= 0
             THEN collectHover(d.text, hovers, name[1], name[2], celMacroHover(m.fn))
             ELSE hovers)

\* the orders in which a range over the map of macro calls can visit them
MapOrders(d) ==
  {o \in [1..Len(d.macros) -> 1..Len(d.macros)] : \A i, j \in 1..Len(d.macros) : i # j => o[i] # o[j]}

\* a nil *hoverInfo
NoHover == [byteStart |-> -1, byteEnd |-> -1, markdown |-> NoMarkdown]

\* the selection loop of computeHover: the first of the narrowest hovers
\* that contain targetOffset
RECURSIVE bestHover(_, _, _)
bestHover(hovers, targetOffset, best) ==
  IF hovers = <<>> THEN best
  ELSE LET h == Head(hovers)
       IN  bestHover(Tail(hovers), targetOffset,
             IF /\ targetOffset >= h.byteStart /\ targetOffset < h.byteEnd
                /\ (best = NoHover \/ h.byteEnd - h.byteStart < best.byteEnd - best.byteStart)
             THEN h ELSE best)

\* the hovers computeHover collects when the map of macro calls is visited in
\* the given order
hoversOf(d, order) ==
  collectMacroHovers(d, order, walkCELExprForHover(d, d.root, <<>>))

hoverOf(d, targetOffset, order) ==
  IF targetOffset < 0 \/ targetOffset >= Len(d.text) THEN NoHover
  ELSE bestHover(hoversOf(d, order), targetOffset, NoHover)

\* ---------------------------------------------------------------------------
\* Semantic tokens
\* ---------------------------------------------------------------------------
semanticTypeProperty == 0
semanticTypeVariable == 2
semanticTypeMethod == 6
semanticTypeFunction == 7
semanticTypeMacro == 9
semanticTypeKeyword == 11
semanticTypeString == 14
semanticTypeNumber == 15
semanticTypeType == 16
semanticTypeOperator == 17
semanticModifierDefaultLibrary == 2

\* overloads.IsTypeConversionFunction, for the functions of the documents
IsTypeConversionFunction(funcName) == funcName = <<"i", "n", "t">>

\* collectToken: the token it appends, or nothing when it rejects the range
collectToken(text, byteStart, byteEnd, semanticType, semanticModifier) ==
  IF byteStart < 0 \/ byteEnd <= byteStart \/ byteEnd > Len(text) THEN <<>>
  ELSE LET lineCol == byteOffsetToLineCol(text, byteStart)
       IN  <<[line |-> lineCol[1], col |-> lineCol[2],
              length |-> utf16Length(text, byteStart, byteEnd),
              semType |-> semanticType, semMod |-> semanticModifier]>>

\* walkCELExpr from node e with the comprehension variables in scope: the
\* tokens it collects, in the order it collects them
RECURSIVE walkCELExpr(_, _, _), walkAllCELExpr(_, _, _)
walkCELExpr(d, e, compVars) ==
  LET n == d.nodes[e]
      range == celOffsetRangeToByteRange(d.text, n.start, n.stop)
  IN  CASE n.kind = "Ident" ->
             LET tokenType == IF isCELKeyword(n.name) THEN semanticTypeKeyword
                              ELSE IF n.name \in compVars THEN semanticTypeVariable
                              ELSE semanticTypeProperty
             IN  IF n.hasOffset THEN collectToken(d.text, range[1], range[2], tokenType, 0)
                 ELSE <<>>
        [] n.kind = "Call" ->
             LET ofTarget == IF n.member THEN walkCELExpr(d, Target(n), compVars) ELSE <<>>
                 name == CalledNameRange(d.text, n.name, n.member,
                           IF n.member
                           THEN celRuneOffsetToByteOffset(d.text, d.nodes[Target(n)].start) ELSE 0,
                           celRuneOffsetToByteOffset(d.text, n.start))
                 tokenType == IF isCELMacroFunction(n.name) THEN semanticTypeMacro
                              ELSE IF IsTypeConversionFunction(n.name) THEN semanticTypeType
                              ELSE IF n.member THEN semanticTypeMethod
                              ELSE semanticTypeFunction
                 tokenModifier == IF ~isCELMacroFunction(n.name) /\ IsTypeConversionFunction(n.name)
                                  THEN semanticModifierDefaultLibrary ELSE 0
                 own == IF celOperatorSymbol(n.name)
                        THEN IF n.hasOffset
                             THEN collectToken(d.text, range[1], range[2], semanticTypeOperator, 0)
                             ELSE <<>>
                        ELSE IF name[1] >= 0
                        THEN collectToken(d.text, name[1], name[2], tokenType, tokenModifier)
                        ELSE <<>>
             IN  ofTarget \o own \o walkAllCELExpr(d, Args(n), compVars)
        [] n.kind = "Literal" ->
             IF ~n.hasOffset \/ LiteralType(d, n) = "none" THEN <<>>
             ELSE collectToken(d.text, range[1], range[2],
                    CASE LiteralType(d, n) = "String" -> semanticTypeString
                      [] LiteralType(d, n) = "Int" -> semanticTypeNumber
                      [] OTHER -> semanticTypeKeyword, 0)
        [] n.kind = "Comprehension" ->
             walkAllCELExpr(d, SubSeq(n.kids, 1, 2), compVars)
               \o walkAllCELExpr(d, SubSeq(n.kids, 3, 5), compVars \cup {n.name, AccuVar})
        [] OTHER -> walkAllCELExpr(d, n.kids, compVars)
walkAllCELExpr(d, ks, compVars) ==
  IF ks = <<>> THEN <<>>
  ELSE walkCELExpr(d, Head(ks), compVars) \o walkAllCELExpr(d, Tail(ks), compVars)

\* what collectMacroTokens collects for one macro call
macroToken(d, m) ==
  LET name == CalledNameRange(d.text, m.fn, m.member,
                celRuneOffsetToByteOffset(d.text, d.nodes[m.target].start),
                celRuneOffsetToByteOffset(d.text, m.at))
  IN  IF isCELMacroFunction(m.fn) /\ name[1] >= 0
      THEN collectToken(d.text, name[1], name[2], semanticTypeMacro, 0)
      ELSE <<>>

\* collectMacroTokens, visiting the macro calls in the given order
RECURSIVE collectMacroTokens(_, _)
collectMacroTokens(d, order) ==
  IF order = <<>> THEN <<>>
  ELSE macroToken(d, d.macros[Head(order)]) \o collectMacroTokens(d, Tail(order))

\* the comparison of the sort: a before b
TokenLess(a, b) == IF a.line # b.line THEN a.line < b.line ELSE a.col < b.col

\* one insertion of the sort: tok moves left past every token it is less than
RECURSIVE insertToken(_, _)
insertToken(sorted, tok) ==
  IF sorted = <<>> THEN <<tok>>
  ELSE IF TokenLess(tok, sorted[Len(sorted)])
  THEN Append(insertToken(SubSeq(sorted, 1, Len(sorted) - 1), tok), sorted[Len(sorted)])
  ELSE Append(sorted, tok)

\* slices.SortFunc on the tokens: an insertion sort for the at most 12
\* tokens of these documents
RECURSIVE sortTokens(_)
sortTokens(tokens) ==
  IF tokens = <<>> THEN <<>>
  ELSE insertToken(sortTokens(SubSeq(tokens, 1, Len(tokens) - 1)), tokens[Len(tokens)])

RECURSIVE deltaEncodeColumnsOnly(_, _, _)
deltaEncodeColumnsOnly(tokens, prevLine, prevCol) ==
  IF tokens = <<>> THEN <<>>
  ELSE LET tok == Head(tokens)
       IN  <<uint32(tok.line - prevLine), uint32(tok.col - prevCol), tok.length, tok.semType, tok.semMod>>
             \o deltaEncodeColumnsOnly(Tail(tokens), tok.line, tok.col)

\* the delta-encoding loop of computeSemanticTokens
RECURSIVE deltaEncode(_, _, _)
deltaEncode(tokens, prevLine, prevCol) ==
  IF tokens = <<>> THEN <<>>
  ELSE LET tok == Head(tokens)
           deltaCol == IF prevLine = tok.line THEN uint32(tok.col - prevCol) ELSE tok.col
       IN  <<uint32(tok.line - prevLine), deltaCol, tok.length, tok.semType, tok.semMod>>
             \o deltaEncode(Tail(tokens), tok.line, tok.col)

\* the Data of the result; empty for a nil result
semanticTokensOf(d, order) ==
  IF d.text = <<>> THEN <<>>
  ELSE deltaEncode(sortTokens(walkCELExpr(d, d.root, {}) \o collectMacroTokens(d, order)), 0, 0)

computeHoverAt(d, targetOffset, order) ==
  Compute("computeHover", [doc |-> d, offset |-> targetOffset],
          hoverOf(d, targetOffset, order))

\* One computation of a repeated request.
requestHover(d, targetOffset, order) ==
  Repeat("computeHover", [doc |-> d, offset |-> targetOffset],
          hoverOf(d, targetOffset, order))

requestSemanticTokens(d, order) ==
  Repeat("computeSemanticTokens", [doc |-> d, offset |-> 0],
          semanticTokensOf(d, order))

requestReferences(d, targetOffset) ==
  Repeat("computeReferences", [doc |-> d, offset |-> targetOffset],
          referencesOutcome(d, targetOffset).edits)

RepeatDocs == {DocExists, DocMapTwo}

\* cursors on a macro name and on a loop variable of the body
RepeatOffsets == {3, 17}

NextRepeat ==
  \E d \in RepeatDocs : \E order \in MapOrders(d) : \E targetOffset \in RepeatOffsets :
    \/ requestHover(d, targetOffset, order)
    \/ requestSemanticTokens(d, order)
    \/ requestReferences(d, targetOffset)

\* the texts of the conversions: up to MaxCodePoints code points
MaxCodePoints == 3
CodePoints == {"a", "\n", "e2", "g4"}
CodePointTexts == UNION {[1..n -> CodePoints] : n \in 1..MaxCodePoints}

RECURSIVE Utf8(_)
Utf8(cps) == IF cps = <<>> THEN <<>> ELSE Encode(Head(cps)) \o Utf8(Tail(cps))

\* what collectToken records for a node whose offset range is [start, stop)
\* in code points: the byte range and the token
tokenOfRange(cps, start, stop) ==
  LET text == Utf8(cps)
      range == celOffsetRangeToByteRange(text, start, stop)
  IN  Compute("collectToken", [text |-> cps, start |-> start, stop |-> stop],
              [byteStart |-> range[1], byteStop |-> range[2],
               tokens |-> collectToken(text, range[1], range[2], semanticTypeString, 0)])

NextOffsets ==
  /\ computed = <<>>
  /\ \E cps \in CodePointTexts : \E start \in 0..(Len(cps) - 1) : \E stop \in (start + 1)..Len(cps) :
       tokenOfRange(cps, start, stop)

\* the token lists of the encoding: up to MaxTokens tokens
MaxTokens == 3
MaxLine == 1
MaxCol == 1
TokenInfos ==
  [line : 0..MaxLine, col : 0..MaxCol, length : {1},
   semType : {semanticTypeProperty, semanticTypeOperator}, semMod : {0}]
TokenLists == UNION {[1..n -> TokenInfos] : n \in 0..MaxTokens}

\* the sort and the encoding of computeSemanticTokens on collected tokens
encodeTokens(tokens) ==
  Compute("encodeTokens", tokens, deltaEncode(sortTokens(tokens), 0, 0))

NextEncode ==
  /\ computed = <<>>
  /\ \E tokens \in TokenLists : encodeTokens(tokens)

\* decodeSemanticTokens: the absolute tokens of a delta-encoded array
RECURSIVE decodeSemanticTokens(_, _, _)
decodeSemanticTokens(data, line, startChar) ==
  IF Len(data) < 5 THEN <<>>
  ELSE LET newLine == uint32(line + data[1])
           newChar == IF data[1] # 0 THEN data[2] ELSE uint32(startChar + data[2])
       IN  <<[line |-> newLine, startChar |-> newChar, length |-> data[3], tokenType |-> data[4]]>>
             \o decodeSemanticTokens(SubSeq(data, 6, Len(data)), newLine, newChar)

\* ---------------------------------------------------------------------------
\* Diagnostics. A text comes with the issues celEnv.Parse reports for it and
\* the issues celEnv.Check would report for its tree.
\* ---------------------------------------------------------------------------
SeverityError == 1
SeverityWarning == 2

WhiteSpace == {" ", "\t", "\n", "\r"}

\* strings.TrimSpace(content) == ""
TrimSpaceIsEmpty(content) == \A i \in 1..Len(content) : content[i] \in WhiteSpace

issuesToDiagnostics(issues, severity) ==
  [i \in 1..Len(issues) |-> [severity |-> severity, message |-> issues[i]]]

diagnosticsOfBothPhases(content, parseIssues, checkIssues) ==
  IF TrimSpaceIsEmpty(content) THEN <<>>
  ELSE issuesToDiagnostics(parseIssues, SeverityError)
         \o issuesToDiagnostics(checkIssues, SeverityWarning)

\* computeDiagnostics, with the issues of the two phases; issues.Err() is
\* nil exactly when there are no issues
diagnosticsOf(content, parseIssues, checkIssues) ==
  IF TrimSpaceIsEmpty(content) THEN <<>>
  ELSE IF parseIssues # <<>> THEN issuesToDiagnostics(parseIssues, SeverityError)
  ELSE IF checkIssues # <<>> THEN issuesToDiagnostics(checkIssues, SeverityWarning)
  ELSE <<>>

MaxIssues == 2
Contents == {<<>>, <<" ">>, <<"\t", "\n">>, <<"x">>, <<" ", "x", "\n">>}
IssueLists(names) == UNION {[1..n -> names] : n \in 0..MaxIssues}

computeDiagnosticsOn(content, parseIssues, checkIssues) ==
  Compute("computeDiagnostics",
          [content |-> content, parseIssues |-> parseIssues, checkIssues |-> checkIssues],
          diagnosticsOf(content, parseIssues, checkIssues))

NextDiagnostics ==
  /\ computed = <<>>
  /\ \E content \in Contents :
       \E parseIssues \in IssueLists({"syntax error", "mismatched input"}) :
         \E checkIssues \in IssueLists({"undeclared reference", "no matching overload"}) :
           computeDiagnosticsOn(content, parseIssues, checkIssues)

HoverDocs == {DocSize, DocPlus, DocArgs, DocExists, DocBool, DocMapTwo}

NextHelp ==
  \E d \in HoverDocs : \E targetOffset \in 0..Len(d.text) :
    \/ computeSignatureHelp(d, targetOffset)
    \/ \E order \in MapOrders(d) : computeHoverAt(d, targetOffset, order)

InitSrv ==
  /\ served = FALSE
  /\ badFrame = FALSE
  /\ InitDocs
  /\ InitRename
  /\ computed = <<>>

Init == InitConn /\ InitFrame /\ InitSrv

SpecFrame == Init /\ [][NextFrame]_vars

\* ------------------------------------------------------------------------
\* ServeStream
\* ------------------------------------------------------------------------
\* readFrame returned an error for a header it cannot accept (a bad or a
\* missing Content-Length): the loop returns as for any read error.
RLFramingErr ==
  /\ rl_pc = "read"
  /\ ~inEOF
  /\ ~rdBroken
  /\ badFrame' = TRUE
  /\ rl_pc' = "closing"
  /\ done' = TRUE
  /\ UNCHANGED <<served, docVars, renameVars, pureVars, frameVars, stream, nRead, reqStream, dropped, inEOF, rdBroken, req, hres,
                 rl_resp, rl_p, handled, seq, pend, call, ch, chClosed, ctxDone, w, wf, wmu, out,
                 wcClosed, notifies>>

\* <-conn.DisconnectNotify(); return nil
ServeReturn ==
  /\ ~served
  /\ done
  /\ served' = TRUE
  /\ UNCHANGED <<badFrame, docVars, renameVars, pureVars, connVars, frameVars>>

\* SpecServe: ServeStream over either kind of stream; the peer sends
\* lifecycle messages, may send a frame that cannot be read, and may close.
ServeFrames == {f \in RequestFrames : f.method \in {"initialize", "exit"}}

NextServe ==
  \/ PeerClose
  \/ \E f \in ServeFrames : RLReadFrame(f)
  \/ RLFramingErr
  \/ RLReadErr
  \/ RLWake
  \/ HandlerReturn
  \/ HandlerClose
  \/ Respond
  \/ Responded
  \/ WLock(Reader)
  \/ WHeader(Reader)
  \/ WBody(Reader)
  \/ ServeReturn

\* The goroutines of the program keep running; the peer owes nothing.
FairServe ==
  /\ WF_vars(RLReadErr) /\ WF_vars(RLWake)
  /\ WF_vars(HandlerReturn) /\ WF_vars(HandlerClose)
  /\ WF_vars(Respond) /\ WF_vars(Responded)
  /\ WF_vars(WLock(Reader)) /\ WF_vars(WHeader(Reader)) /\ WF_vars(WBody(Reader))
  /\ WF_vars(ServeReturn)

SpecServe == Init /\ [][NextServe]_vars /\ FairServe

\* One lifecycle message is handled.
Lifecycle ==
  \/ \E u \in URIs, v \in Versions, t \in Texts : didOpen(u, v, t)
  \/ \E u \in URIs, v \in Versions, cs \in ChangeLists, notif \in BOOLEAN : didChange(u, v, cs, notif)
  \/ \E u \in URIs : didClose(u)

Feature ==
  \/ \E u \in URIs : hoverLookup(u, 0)
  \/ hoverGuard
  \/ hoverCompute

\* The server on a pipe (ServeStream is given any io.ReadWriteCloser).
InitPipe == Init /\ stream = "pipe"

\* SpecDocs: the read loop calls the handlers one after the other.
NextDocs ==
  \/ fh.pc = "idle" /\ Lifecycle
  \/ Feature

SpecDocs == InitPipe /\ [][NextDocs]_vars

\* SpecRace: a lifecycle handler and a feature handler called from two
\* goroutines, every interleaving of their steps.
NextRace ==
  \/ Lifecycle
  \/ Feature

SpecRace == InitPipe /\ [][NextRace]_vars

\* SpecFeatures: documents are opened and feature requests are served.
NextFeatures ==
  \/ \E u \in URIs, v \in Versions, t \in Texts : didOpen(u, v, t)
  \/ \E method \in FeatureMethods, u \in URIs, off \in Offsets : featureRequest(method, u, off)

SpecFeatures == InitPipe /\ [][NextFeatures]_vars

\* SpecRename: rename and references requests for every cursor of the
\* documents of Docs, one past the end of the text included.
NextRename ==
  \E d \in Docs : \E targetOffset \in 0..Len(d.text) :
     \/ \E newName \in NewNames : computeRename(d, targetOffset, newName)
     \/ computeReferences(d, targetOffset)
     \/ computeDocumentHighlight(d, targetOffset)
     \/ computePrepareRename(d, targetOffset)

SpecRename == InitPipe /\ [][NextRename]_vars

SpecHelp == InitPipe /\ [][NextHelp]_vars

SpecRepeat == InitPipe /\ [][NextRepeat]_vars

SpecOffsets == InitPipe /\ [][NextOffsets]_vars

SpecEncode == InitPipe /\ [][NextEncode]_vars

SpecDiagnostics == InitPipe /\ [][NextDiagnostics]_vars

\* SpecPeer: readFrame on bytes an arbitrary peer sends: header lines with
\* any Content-Length value, other headers, the blank line, and bodies.
MaxChunks == 4

CRLF == <<"CR", "LF">>

PeerChunks ==
  { ContentLengthPrefix \o <<"2">> \o CRLF,
    ContentLengthPrefix \o <<"-", "1">> \o CRLF,
    ContentLengthPrefix \o <<"x">> \o CRLF,
    ContentLengthPrefix \o <<"0">> \o CRLF,
    <<"T", ":", "a">> \o CRLF,
    CRLF,
    <<"{", "}">>,
    <<"x">> }

\* The peer writes some bytes to the stream (sent records the writes).
FPeerSend(chunk) ==
  /\ ~fclosed
  /\ fstatus = "ok"
  /\ Len(sent) < MaxChunks
  /\ wire' = wire \o chunk
  /\ sent' = Append(sent, chunk)
  /\ UNCHANGED <<fw_data, fclosed, rpos, recv, fstatus, connVars, srvVars>>

NextPeer ==
  \/ \E chunk \in PeerChunks : FPeerSend(chunk)
  \/ FClose
  \/ FRead

SpecPeer == Init /\ [][NextPeer]_vars

\* ------------------------------------------------------------------------
\* Specifications of the connection
\* ------------------------------------------------------------------------
\* Spec: the read loop serving a peer that sends any frame; the handler may
\* notify, call back and close on the Conn; Close may come from outside.
\* One goroutine outside the loop issues the first Call of the Conn, so that
\* replies are delivered while requests are being served.
Client == "c1"

SpecThreads == {Reader, Client}

Next ==
  \/ PeerClose
  \/ CtxCancel(Reader)
  \/ Close
  \/ \E t \in SpecThreads : WLock(t)
  \/ \E t \in SpecThreads : WHeader(t)
  \/ \E t \in SpecThreads : WBody(t)
  \/ seq = 0 /\ CallRegister(Client)
  \/ CallMarshalErr(Reader)
  \/ \E t \in SpecThreads : CallWrite(t)
  \/ \E t \in SpecThreads : CallWritten(t)
  \/ \E t \in SpecThreads : CallWriteErr(t)
  \/ \E t \in SpecThreads : CallRecv(t)
  \/ \E t \in SpecThreads : CallClosed(t)
  \/ \E t \in SpecThreads : CallCtxDone(t)
  \/ \E t \in SpecThreads : CallCtxDelete(t)
  \/ \E f \in Frames : RLReadFrame(f)
  \/ RLDeliver
  \/ RLReadErr
  \/ RLWake
  \/ HandlerReturn
  \/ HandlerNotify
  \/ HandlerNotified
  \/ HandlerClose
  \/ HandlerCall
  \/ HandlerCalled
  \/ Respond
  \/ Responded

Spec == Init /\ [][Next]_vars

\* SpecCall: goroutines issuing Call concurrently against a peer that sends
\* replies (and bodies that are not JSON), with cancellation and shutdown.
NextCall ==
  \/ PeerClose
  \/ \E t \in Callers : CtxCancel(t)
  \/ Close
  \/ \E t \in Callers : WLock(t)
  \/ \E t \in Callers : WHeader(t)
  \/ \E t \in Callers : WBody(t)
  \/ \E t \in Callers : CallRegister(t)
  \/ \E t \in Callers : CallMarshalErr(t)
  \/ \E t \in Callers : CallWrite(t)
  \/ \E t \in Callers : CallWritten(t)
  \/ \E t \in Callers : CallWriteErr(t)
  \/ \E t \in Callers : CallRecv(t)
  \/ \E t \in Callers : CallClosed(t)
  \/ \E t \in Callers : CallCtxDone(t)
  \/ \E t \in Callers : CallCtxDelete(t)
  \/ \E f \in ReplyFrames : RLReadFrame(f)
  \/ RLDeliver
  \/ RLReadErr
  \/ RLWake

SpecCall == Init /\ [][NextCall]_vars

\* SpecWrite: every kind of writer at once: callers issuing Call and Notify
\* while the read loop answers requests and the handler pushes notifications.
WriteFrames == {f \in RequestFrames : \/ f.method = "initialize" /\ f.id.k = "num"
                                      \/ f.method = "textDocument/didChange" /\ f.id.k = "none"}

NextWrite ==
  \/ Close
  \/ \E t \in Threads : WLock(t)
  \/ \E t \in Threads : WHeader(t)
  \/ \E t \in Threads : WBody(t)
  \/ \E t \in Callers : CallRegister(t)
  \/ \E t \in Callers : CallWrite(t)
  \/ \E t \in Callers : CallWritten(t)
  \/ \E t \in Callers : CallWriteErr(t)
  \/ \E t \in Callers : Notify(t)
  \/ \E t \in Callers : NotifyReturn(t)
  \/ \E f \in WriteFrames : RLReadFrame(f)
  \/ HandlerReturn
  \/ HandlerNotify
  \/ HandlerNotified
  \/ Respond
  \/ Responded

SpecWrite == Init /\ [][NextWrite]_vars

\* ------------------------------------------------------------------------
\* Properties of the connection
\* ------------------------------------------------------------------------
Active(t) == call[t].pc \in {"send", "sending", "wait", "cancelled"}
Replied(t) == call[t].pc = "returned" /\ call[t].res \in {"ok", "rpcErr"}
Count(S) == Cardinality(S)

\* C1: a Call is resolved only by a reply whose wire id equals the id the
\* Call sent, whether the reply's id is a number or a string: this holds of
\* every Call that returned a reply and of every reply the read loop is
\* about to hand to a pending entry.
C1_ReplyMatchesOwnId ==
  /\ \A t \in Threads : Replied(t) => call[t].wid = NumW(call[t].id)
  /\ rl_pc = "deliver" => rl_resp.wid = NumW(rl_p)

\* C2: once the read loop has shut the connection down, every Call that is
\* waiting for its reply has been given a reply or the closure signal, also
\* a Call that registered its entry while the loop was shutting down.
C2_ShutdownResolvesEveryCall ==
  rl_pc = "exited" =>
    \A t \in Threads : call[t].pc = "wait" => (ch[call[t].id] # <<>> \/ chClosed[call[t].id])

\* C3: while the handler waits for the reply of a Call it issued on the same
\* Conn, the read loop can still take the next frame from an open stream.
C3_ReaderDecodesWhileHandlerCalls ==
  (rl_pc = "h_call" /\ call[Reader].pc = "wait" /\ nRead < MaxIn /\ ~inEOF /\ ~rdBroken)
    => ENABLED (\E f \in Frames : RLReadFrame(f))

\* C4: a registered Call keeps its entry in the pending map until the read
\* loop takes the entry to deliver the one outcome; ids come from below seq
\* and no two Calls in progress share one; a channel holds at most one
\* signal, and none once its Call has returned with it.
C4_PendingEntryLifecycle ==
  /\ \A t \in Threads : call[t].pc \in {"send", "sending", "wait"} =>
        \/ call[t].id \in pend
        \/ ch[call[t].id] # <<>>
        \/ chClosed[call[t].id]
        \/ (rl_pc = "deliver" /\ rl_p = call[t].id)
  /\ \A i \in 1..Len(out) : out[i].f.kind = "req" =>
        (out[i].f.id.k = "num" /\ out[i].f.id.n < seq)
  /\ \A t, u \in Threads : (t # u /\ Active(t) /\ Active(u)) => call[t].id # call[u].id
  /\ \A i \in pend : i < seq
  /\ \A i \in CallIds : Len(ch[i]) <= 1 /\ ~(chClosed[i] /\ ch[i] # <<>>)
  /\ \A t \in Threads : (Replied(t) \/ (call[t].pc = "returned" /\ call[t].res = "ErrClosed")) =>
        /\ ch[call[t].id] = <<>>
        /\ ~(rl_pc = "deliver" /\ rl_p = call[t].id)
        /\ call[t].id \notin pend
        /\ Replied(t) => ~chClosed[call[t].id]

C4_Witness ==
  \E t, u \in Threads :
    /\ t # u
    /\ Replied(t)
    /\ call[u].pc = "wait" /\ call[u].id \in pend /\ ch[call[u].id] = <<>>

\* C5: a Call that returned the context error has no entry in the pending
\* map; the read loop's send to a pending entry never blocks or panics; and
\* reading a reply whose id has no entry leaves every Call, channel and
\* entry as it was and returns the loop to reading.
C5_AbandonedInv ==
  /\ \A t \in Threads : (call[t].pc = "returned" /\ call[t].res = "ctxErr") => call[t].id \notin pend
  /\ rl_pc = "deliver" => (ch[rl_p] = <<>> /\ ~chClosed[rl_p])
  /\ rl_pc # "panic"

C5_LateReplyStep ==
  dropped' # dropped =>
    /\ rl_pc = "read" /\ rl_pc' = "read"
    /\ UNCHANGED <<call, ch, chClosed, pend>>

C6_FramesNeverInterleave ==
  \A i \in 1..Len(out) :
    /\ (out[i].part = "hdr" /\ i < Len(out)) =>
          (out[i + 1].part = "body" /\ out[i + 1].by = out[i].by /\ out[i + 1].f = out[i].f)
    /\ out[i].part = "body" =>
          (i > 1 /\ out[i - 1].part = "hdr" /\ out[i - 1].by = out[i].by /\ out[i - 1].f = out[i].f)

C6_Witness ==
  \E t, u \in Threads :
    /\ t # u
    /\ w[t] = "want" /\ wmu = u /\ w[u] = "body"
    /\ Len(out) >= 3

\* C7: the requests passed to the handler are, in order and once each, the
\* method-bearing messages read from the stream whose id is absent, an
\* unsigned number, a string or null, each with its own method and id.
WellFormed(f) == f.id.k \in {"none", "null", "num", "str"}

ResponsesWritten == {j \in 1..Len(out) : out[j].part = "body" /\ out[j].f.kind = "resp"}

C8_OneResponsePerRequest ==
  (rl_pc = "read" /\ ~wcClosed /\ ~inEOF) =>
    /\ \A x \in ReqWireIds \ {NoneW} :
          Count({i \in 1..Len(reqStream) : reqStream[i].id = x})
            = Count({j \in ResponsesWritten : out[j].f.id = x})
    /\ Count(ResponsesWritten) = Count({i \in 1..Len(reqStream) : reqStream[i].id # NoneW})

\* C9: the response being sent for a request carries the request's id; a
\* protocol Error keeps its code and message (-32601 for an unsupported
\* method), any other error becomes -32603 with its message; and when the
\* handler returned an error for a notification the loop goes back to
\* reading without writing anything or closing the connection.
C9_ErrorResponseInv ==
  rl_pc = "resp_w" =>
    /\ ~req.Notif
    /\ wf[Reader].kind = "resp"
    /\ wf[Reader].id = MarshalID(req.ID)
    /\ hres.kind = "rpcErr" => (wf[Reader].code = hres.code /\ wf[Reader].msg = hres.msg)
    /\ hres.kind = "plainErr" => (wf[Reader].code = -32603 /\ wf[Reader].msg = hres.msg)
    /\ hres.kind = "result" => wf[Reader].code = 0
    /\ req.Method = "workspace/unsupported" => wf[Reader].code = -32601

C9_NotificationErrorStep ==
  (rl_pc = "respond" /\ rl_pc' # "respond" /\ req.Notif) =>
    /\ rl_pc' = "read"
    /\ UNCHANGED <<out, w, wf, done, wcClosed, rdBroken>>

C9_HandlerErrorMapping == [](C9_ErrorResponseInv) /\ [][C9_NotificationErrorStep]_vars

C9_Witness ==
  /\ rl_pc = "resp_w"
  /\ hres.kind = "plainErr"
  /\ w[Reader] = "ok"

\* C10: successive readFrame calls return the bodies writeMessage wrote, in
\* order and whole, each call ending exactly where its body ends on the
\* stream; a written message can always be read; a call fails only at the
\* end of the stream, after the last complete message, and never panics.
FramedLength(bs) == IF bs = <<>> THEN 0 ELSE
  LET Sum[i \in 0..Len(bs)] ==
        IF i = 0 THEN 0
        ELSE Sum[i - 1] + 16 + (IF Len(bs[i]) < 10 THEN 1 ELSE 2) + 4 + Len(bs[i])
  IN  Sum[Len(bs)]

C10_FramingRoundTrip ==
  /\ fstatus # "panic"
  /\ Len(recv) <= Len(sent)
  /\ \A i \in 1..Len(recv) : recv[i] = sent[i]
  /\ rpos = FramedLength(SubSeq(sent, 1, Len(recv)))
  /\ (Len(recv) < Len(sent) /\ fstatus = "ok") =>
        /\ ReadFrame(wire, rpos, fclosed).st = "ok"
        /\ ReadFrame(wire, rpos, fclosed).body = sent[Len(recv) + 1]
  /\ fstatus = "err" => (fclosed /\ Len(recv) = Len(sent))

C10_Witness ==
  /\ Len(recv) >= 2
  /\ recv[1] # recv[2]
  /\ \E i \in 1..Len(recv) : Len(recv[i]) >= 10
  /\ Len(sent) > Len(recv)
  /\ fstatus = "ok"

\* C11: readFrame never panics: whatever bytes the peer sends, a call
\* either returns a body or returns an error that ends the read loop.
C11_FramingErrorNeverPanics == fstatus # "panic"

ExitHandled == \E i \in 1..Len(handled) : handled[i].Method = "exit"

NoDoc == [open |-> FALSE, version |-> 0, text |-> ""]

\* What the store holds for a URI.
Stored(u) ==
  IF files[u] = NilFile THEN NoDoc
  ELSE [open |-> TRUE, version |-> heap[files[u]].version, text |-> heap[files[u]].content]

\* The text a document has after a didChange: its content changes are
\* applied in order, each replacing the whole text.
TextAfter(old, cs) == IF cs = <<>> THEN old ELSE cs[Len(cs)]

\* The documents a client has after sending the messages of log: open with
\* the version and text of its latest didOpen/didChange, or not open.
RECURSIVE ClientDocs(_)
ClientDocs(log) ==
  IF log = <<>> THEN [u \in URIs |-> NoDoc]
  ELSE LET before == ClientDocs(SubSeq(log, 1, Len(log) - 1))
           m == log[Len(log)]
       IN  CASE m.kind = "didOpen" ->
                  [before EXCEPT ![m.uri] = [open |-> TRUE, version |-> m.version, text |-> m.changes[1]]]
             [] m.kind = "didChange" /\ before[m.uri].open ->
                  [before EXCEPT ![m.uri] = [open |-> TRUE, version |-> m.version,
                                             text |-> TextAfter(before[m.uri].text, m.changes)]]
             [] m.kind = "didClose" -> [before EXCEPT ![m.uri] = NoDoc]
             [] OTHER -> before

\* The messages of log that are a didOpen, or a didChange of an open document.
Accepted(log) ==
  {i \in 1..Len(log) : \/ log[i].kind = "didOpen"
                       \/ log[i].kind = "didChange" /\ ClientDocs(SubSeq(log, 1, i - 1))[log[i].uri].open}

\* C13: for each URI the store holds exactly the version and text of the
\* latest didOpen/didChange since the URI's last didClose, and no entry for a
\* URI that was never opened or was closed last.
C13_StoreHoldsLatestUpdate == \A u \in URIs : Stored(u) = ClientDocs(recvd)[u]

\* C14: handling a didChange for a URI that has no entry writes an error
\* response and changes neither the store nor what has been published.
C14_UnopenedChangeReported ==
  [][ (/\ Len(recvd') = Len(recvd) + 1
       /\ recvd'[Len(recvd')].kind = "didChange"
       /\ files[recvd'[Len(recvd')].uri] = NilFile)
      => (/\ Len(reported') = Len(reported) + 1
          /\ UNCHANGED <<files, heap, published>>) ]_vars

\* C15: while a URI keeps its entry, the version stored for it never
\* decreases.
C15_VersionNeverDecreases ==
  [][ \A u \in URIs :
        (files[u] # NilFile /\ files'[u] = files[u])
          => heap'[files[u]].version >= heap[files[u]].version ]_vars

\* C16: every read of the document a feature handler makes while serving one
\* request sees the same text, whatever updates run meanwhile.
C16_HandlerSeesOneSnapshot ==
  \A i \in 1..Len(answers) : answers[i].guard = answers[i].text

\* The k-th element of the set S of numbers, in increasing order.
RECURSIVE Kth(_, _)
Kth(S, k) ==
  LET least == CHOOSE x \in S : \A y \in S : x <= y
  IN  IF k = 1 THEN least ELSE Kth(S \ {least}, k - 1)

\* C17: one publishDiagnostics per accepted didOpen/didChange, in receipt
\* order, the k-th with the URI, the version and the diagnostics of the text
\* of the k-th accepted message; and a request is answered from the text of
\* the latest update received before it.
C17_PublishedInReceiptOrder ==
  /\ Len(published) = Cardinality(Accepted(recvd))
  /\ \A k \in 1..Len(published) :
       LET i == Kth(Accepted(recvd), k)
           doc == ClientDocs(SubSeq(recvd, 1, i))[recvd[i].uri]
       IN  published[k] = publishDiagnostics(recvd[i].uri, recvd[i].version, doc.text)
  /\ \A j \in 1..Len(answers) :
       answers[j].text = ClientDocs(SubSeq(recvd, 1, answers[j].at))[answers[j].uri].text

\* The request names an unknown URI, an empty document, a document that
\* does not parse, or an offset outside the text.
NoResultCase(a) ==
  LET doc == ClientDocs(SubSeq(recvd, 1, a.at))[a.uri]
  IN  \/ ~doc.open
      \/ doc.text = ""
      \/ ~Parses(doc.text)
      \/ a.off < 0 \/ a.off >= TextLen(doc.text)

\* C18: a feature request in one of those cases is answered with the
\* feature's no-result value and never with an error response: null, or for
\* pull diagnostics a full report (without items for an unknown or empty
\* document).
C18_NoResultNotError ==
  \A i \in 1..Len(answers) :
    LET a == answers[i]
        doc == ClientDocs(SubSeq(recvd, 1, a.at))[a.uri]
    IN  NoResultCase(a) =>
          /\ a.code = 0
          /\ IF a.method = "textDocument/diagnostic"
               THEN /\ a.result.kind = "full"
                    /\ (~doc.open \/ doc.text = "") => a.result.items = {}
               ELSE (a.method = "textDocument/semanticTokens/full"
                       /\ doc.open /\ Parses(doc.text)) \/ a.result = Null

\* ---------------------------------------------------------------------------
\* Scope resolution and occurrence enumeration (SpecRename)
\* ---------------------------------------------------------------------------
Comprehensions(d) ==
  {e \in 1..Len(d.nodes) : d.nodes[e].kind = "Comprehension"}

\* The identifier nodes written in the text whose name holds the offset, and
\* the comprehensions whose loop variable is declared there.
IdentUnder(d, off) ==
  {e \in 1..Len(d.nodes) :
     d.nodes[e].kind = "Ident" /\ off >= d.nodes[e].start /\ off < d.nodes[e].stop}

BinderUnder(d, off) ==
  {c \in Comprehensions(d) :
     off >= d.nodes[c].binder /\ off < d.nodes[c].binder + Len(d.nodes[c].name)}

\* Node e lies below comprehension c; it lies where c's loop variable is
\* visible when it is not in c's iteration range.
Encloses(d, c, e) ==
  \E i \in 1..Len(WalkAll(d, d.nodes[c].kids)) : WalkAll(d, d.nodes[c].kids)[i] = e

Binds(d, c, e) ==
  \E i \in 1..Len(WalkAll(d, Tail(d.nodes[c].kids))) :
     WalkAll(d, Tail(d.nodes[c].kids))[i] = e

Innermost(d, S) == {c \in S : \A c2 \in S \ {c} : Encloses(d, c2, c)}

ScopeAmong(d, S) ==
  IF S = {} THEN {topLevelScope} ELSE {loopVarScope(c) : c \in Innermost(d, S)}

\* The scopes the occurrence at an offset may be given: the comprehension it
\* declares the variable of; for a use, the nearest enclosing comprehension
\* that declares its name, or the top level when there is none.  A use in the
\* iteration range of a comprehension of the same name may be counted either
\* as enclosed by that comprehension or as outside it.
RightScopes(d, off) ==
  {loopVarScope(c) : c \in BinderUnder(d, off)}
  \cup UNION {
        ScopeAmong(d, {c \in Comprehensions(d) :
                         d.nodes[c].name = d.nodes[e].name /\ Encloses(d, c, e)})
        \cup
        ScopeAmong(d, {c \in Comprehensions(d) :
                         d.nodes[c].name = d.nodes[e].name /\ Binds(d, c, e)})
        : e \in IdentUnder(d, off)}

\* C19: for a cursor on an identifier occurrence, the resolved scope is
\* LoopVariable of the nearest enclosing comprehension that declares the name
\* (also when an outer comprehension declares the same name), and TopLevel
\* when no enclosing comprehension declares it.
C19_ScopeIsNearestDeclarer ==
  (/\ rn_method \in {"rename", "references", "documentHighlight"}
   /\ rn_error = NoError
   /\ RightScopes(rn_doc, rn_offset) # {})
    => rn_scope \in RightScopes(rn_doc, rn_offset)

\* The range of an edit, a location or a highlight.
RangeOf(edit) == EditAt(edit.start, edit.stop)

\* The declaration site of comprehension c and every identifier node of that
\* name below c.
ScopeOccurrences(d, c) ==
  {EditAt(d.nodes[c].binder, d.nodes[c].binder + Len(d.nodes[c].name))}
  \cup {EditAt(d.nodes[e].start, d.nodes[e].stop) :
          e \in {i \in 1..Len(d.nodes) :
                   /\ d.nodes[i].kind = "Ident"
                   /\ d.nodes[i].name = d.nodes[c].name
                   /\ Encloses(d, c, i)}}

\* C20: when the resolved scope is a loop variable, the enumeration returns
\* the declaration site of that comprehension's loop variable and every
\* identifier node of that name in the comprehension's subtree, each once,
\* and nothing else; for [1, 2, 3].map(x, x * 2) with the cursor on the first
\* x these are the two ranges 14..15 and 17..18.
C20_LoopVarOccurrences ==
  /\ (rn_method \in {"rename", "references"} /\ rn_scope.tag = "LoopVariable") =>
       /\ {RangeOf(rn_edits[i]) : i \in 1..Len(rn_edits)}
            = ScopeOccurrences(rn_doc, rn_scope.comprehensionID)
       /\ Len(rn_edits) = Cardinality(ScopeOccurrences(rn_doc, rn_scope.comprehensionID))
  /\ (/\ rn_method \in {"rename", "references"} /\ rn_error = NoError
      /\ rn_doc = DocMap /\ rn_offset = 14) =>
       <<RangeOf(rn_edits[1]), RangeOf(rn_edits[2])>> = <<EditAt(14, 15), EditAt(17, 18)>>
       /\ Len(rn_edits) = 2

ValueName == <<"v", "a", "l", "u", "e">>

NamedIdents(d, identName) ==
  {e \in 1..Len(d.nodes) : d.nodes[e].kind = "Ident" /\ d.nodes[e].name = identName}

\* C21: a rename resolved to the top-level scope returns one edit per
\* identifier node of the tree that has the target name, each over that
\* node's own range with the new name as its text; the edits depend on the
\* document, the name and the new name only, not on which occurrence the
\* cursor is on; `x + x + x` renamed at offset 0 to `value` gives the three
\* edits at 0, 4 and 8.
C21_TopLevelRenameEdits ==
  /\ (rn_method = "rename" /\ rn_error = NoError /\ rn_scope.tag = "TopLevel") =>
       /\ {rn_edits[i] : i \in 1..Len(rn_edits)}
            = {[start |-> rn_doc.nodes[e].start, stop |-> rn_doc.nodes[e].stop,
                newText |-> rn_newName] : e \in NamedIdents(rn_doc, rn_ident.name)}
       /\ Len(rn_edits) = Cardinality(NamedIdents(rn_doc, rn_ident.name))
  /\ (/\ rn_method = "rename" /\ rn_doc = DocSum /\ rn_offset = 0
      /\ rn_newName = ValueName) =>
       rn_edits = << [start |-> 0, stop |-> 1, newText |-> ValueName],
                     [start |-> 4, stop |-> 5, newText |-> ValueName],
                     [start |-> 8, stop |-> 9, newText |-> ValueName] >>

C21_Witness ==
  /\ rn_method = "rename" /\ rn_doc = DocSum /\ rn_offset = 8
  /\ rn_newName = ValueName /\ rn_scope = topLevelScope /\ Len(rn_edits) = 3

\* The cursor is on the name of a global or member call: the name stands in
\* the text right before the call's opening parenthesis.
OnFunctionName(d, off) ==
  \E e \in 1..Len(d.nodes) :
     LET n == d.nodes[e]
     IN  /\ n.kind = "Call" /\ n.start < n.stop /\ n.start >= Len(n.name)
         /\ Slice(d.text, n.start - Len(n.name), n.start) = n.name
         /\ off >= n.start - Len(n.name) /\ off < n.start

\* C22: with the cursor on a function-call name, prepareRename returns null
\* and rename returns no edits, also in a document that has a variable
\* spelled like the function.
C22_FunctionsNotRenamed ==
  (rn_method \in {"rename", "prepareRename"} /\ OnFunctionName(rn_doc, rn_offset))
    => rn_edits = <<>>

C22_Witness ==
  /\ rn_method = "rename" /\ rn_doc = DocFn /\ rn_offset = 4
  /\ rn_newName = ValueName /\ rn_error = NoError /\ rn_edits = <<>>

\* The words the CEL language reserves: they cannot be used as identifiers.
ReservedWords ==
  {<<"t", "r", "u", "e">>, <<"f", "a", "l", "s", "e">>, <<"n", "u", "l", "l">>,
   <<"i", "n">>, <<"a", "s">>, <<"b", "r", "e", "a", "k">>, <<"c", "o", "n", "s", "t">>,
   <<"c", "o", "n", "t", "i", "n", "u", "e">>, <<"e", "l", "s", "e">>, <<"f", "o", "r">>,
   <<"f", "u", "n", "c", "t", "i", "o", "n">>, <<"i", "f">>, <<"i", "m", "p", "o", "r", "t">>,
   <<"l", "e", "t">>, <<"l", "o", "o", "p">>, <<"p", "a", "c", "k", "a", "g", "e">>,
   <<"n", "a", "m", "e", "s", "p", "a", "c", "e">>, <<"r", "e", "t", "u", "r", "n">>,
   <<"v", "a", "r">>, <<"v", "o", "i", "d">>, <<"w", "h", "i", "l", "e">>}

LegalNewName(newName) ==
  /\ newName # <<>>
  /\ newName[1] \in IdentLetters \cup {"_"}
  /\ \A i \in 2..Len(newName) : newName[i] \in IdentLetters \cup {"_"} \cup {Digits[k] : k \in 1..Len(Digits)}
  /\ newName \notin ReservedWords

\* C23: a rename whose new name is empty, is not a letter or underscore
\* followed by letters, digits or underscores, or is a reserved word fails
\* with an error, before anything is resolved and without edits; a rename
\* with any other new name does not fail.
C23_NewNameValidated ==
  rn_method = "rename" =>
    IF LegalNewName(rn_newName)
    THEN rn_error = NoError
    ELSE rn_error # NoError /\ rn_edits = <<>> /\ rn_ident = NilInfo

OnVariable(d, off) == IdentUnder(d, off) # {} \/ BinderUnder(d, off) # {}

Ranges(edits) == {RangeOf(edits[i]) : i \in 1..Len(edits)}

\* C30: for one document and one cursor on a variable, the rename edits,
\* the reference locations and the document highlights cover the same set
\* of ranges, for top-level and for loop-variable scopes.
C30_SameRangesForAllThree ==
  (/\ rn_method \in {"rename", "references", "documentHighlight"}
   /\ rn_error = NoError
   /\ OnVariable(rn_doc, rn_offset))
    => /\ Ranges(rn_edits) = Ranges(renameOutcome(rn_doc, rn_offset, ValueName).edits)
       /\ Ranges(rn_edits) = Ranges(referencesOutcome(rn_doc, rn_offset).edits)
       /\ Ranges(rn_edits) = Ranges(highlightOutcome(rn_doc, rn_offset).edits)

C30_Witness ==
  /\ rn_method = "documentHighlight" /\ rn_doc = DocMap /\ rn_offset = 17
  /\ rn_scope.tag = "LoopVariable"
  /\ Ranges(rn_edits) = {EditAt(14, 15), EditAt(17, 18)}

\* ---------------------------------------------------------------------------
\* Hover and signature help
\* ---------------------------------------------------------------------------
Entries(fn) == {i \in 1..Len(computed) : computed[i].fn = fn}

\* the candidates of a document: what computeHover collected, as a set
Candidates(d) ==
  LET hs == hoversOf(d, [i \in 1..Len(d.macros) |-> i]) IN {hs[i] : i \in 1..Len(hs)}

ContainingCandidates(d, off) ==
  {h \in Candidates(d) : h.byteStart <= off /\ off < h.byteEnd}

\* the calls written with parentheses: a call node on a "(" that is neither
\* an operator nor a node of a macro expansion
WrittenCalls(d) ==
  {e \in 1..Len(d.nodes) :
     /\ d.nodes[e].kind = "Call"
     /\ d.nodes[e].name \notin Operators
     /\ d.nodes[e].start < d.nodes[e].stop
     /\ d.text[d.nodes[e].start + 1] = "("}

ParenStart(d, e) == d.nodes[e].start
ParenEnd(d, e) == parenEndFrom(d.text, d.nodes[e].start + 1, 1)

EnclosingCalls(d, off) ==
  {e \in WrittenCalls(d) : ParenStart(d, e) <= off /\ off < ParenEnd(d, e)}

HoverIsNarrowest ==
  \A i \in Entries("computeHover") :
    LET c == computed[i]
        among == ContainingCandidates(c.in.doc, c.in.offset)
    IN  IF among = {} THEN c.out = NoHover
        ELSE /\ c.out \in among
             /\ \A h \in among : c.out.byteEnd - c.out.byteStart <= h.byteEnd - h.byteStart

SignatureCallIsNarrowest ==
  \A i \in Entries("computeSignatureHelp") :
    LET c == computed[i]
        among == EnclosingCalls(c.in.doc, c.in.offset)
    IN  c.out # NoHelp =>
          /\ c.out.call \in among
          /\ \A e \in among :
               ParenEnd(c.in.doc, c.out.call) - ParenStart(c.in.doc, c.out.call)
                 <= ParenEnd(c.in.doc, e) - ParenStart(c.in.doc, e)

\* C24: hover answers with a candidate whose half-open byte range contains the
\* cursor and is the narrowest of those that do, and with nothing when no
\* candidate contains it; signature help answers for the call whose
\* parenthesised range is the narrowest one containing the cursor.
C24_NarrowestContaining == HoverIsNarrowest /\ SignatureCallIsNarrowest

\* the depth of parentheses at byte i, counted from byte a
ParenDepth(text, a, i) ==
  Cardinality({j \in a..(i - 1) : text[j + 1] = "("})
    - Cardinality({j \in a..(i - 1) : text[j + 1] = ")"})

\* the commas at depth 0 between the opening parenthesis and the cursor
CommasBefore(text, parenStart, off) ==
  Cardinality({j \in (parenStart + 1)..(off - 1) :
                 text[j + 1] = "," /\ ParenDepth(text, parenStart + 1, j) = 0})

\* C29: the active parameter of signature help is the number of depth-0
\* commas between the call's opening parenthesis and the cursor, is at most
\* the index of the call's last argument, and is 0 for a call without
\* arguments.
C29_ActiveParameter ==
  \A i \in Entries("computeSignatureHelp") :
    LET c == computed[i]
        nArgs == Len(Args(c.in.doc.nodes[c.out.call]))
        commas == CommasBefore(c.in.doc.text, c.out.parenStart, c.in.offset)
    IN  c.out # NoHelp =>
          IF nArgs = 0 THEN c.out.activeParameter = 0
          ELSE c.out.activeParameter = (IF commas < nArgs THEN commas ELSE nArgs - 1)

\* ---------------------------------------------------------------------------
\* Repeated requests, offsets and the token encoding
\* ---------------------------------------------------------------------------

\* C25: two identical hover, semantic token or references requests on the
\* same unchanged document and position get identical results, whatever the
\* order in which a map is iterated and whatever was handled in between.
C25_RepeatedRequestsAgree ==
  \A i, j \in 1..Len(computed) :
    (computed[i].fn = computed[j].fn /\ computed[i].in = computed[j].in)
      => computed[i].out = computed[j].out

\* the byte offset of code point k of a text given as code points
ByteOffsetOfCodePoint(cps, k) == Len(Utf8(SubSeq(cps, 1, k)))

RECURSIVE Utf16Units(_)
Utf16Units(cps) ==
  IF cps = <<>> THEN 0 ELSE RuneLen(Head(cps)) + Utf16Units(Tail(cps))

\* the line of code point k and the first code point of that line
LineOfCodePoint(cps, k) == Cardinality({i \in 1..k : cps[i] = "\n"})
LineStart(cps, k) ==
  LET breaks == {i \in 1..k : cps[i] = "\n"}
  IN  IF breaks = {} THEN 0 ELSE CHOOSE i \in breaks : \A j \in breaks : j <= i

Projected(tok) ==
  [line |-> tok.line, startChar |-> tok.col, length |-> tok.length, tokenType |-> tok.semType]

Occurrences(list, x) == Cardinality({i \in 1..Len(list) : list[i] = x})

\* C28: the encoding has 5 integers per token; decoding it by accumulating the
\* deltas gives the tokens in (line, column) order, each with its absolute
\* line, column, length and type; and no delta wraps around.
C28_EncodingDecodes ==
  \A i \in Entries("encodeTokens") :
    LET c == computed[i]
        decoded == decodeSemanticTokens(c.out, 0, 0)
        given == [k \in 1..Len(c.in) |-> Projected(c.in[k])]
    IN  /\ Len(c.out) = 5 * Len(c.in)
        /\ Len(decoded) = Len(c.in)
        /\ \A k \in 1..Len(decoded) : Occurrences(decoded, decoded[k]) = Occurrences(given, decoded[k])
        /\ \A k \in 1..(Len(decoded) - 1) :
             \/ decoded[k].line < decoded[k + 1].line
             \/ /\ decoded[k].line = decoded[k + 1].line
                /\ decoded[k].startChar <= decoded[k + 1].startChar
        /\ \A k \in 0..(Len(c.in) - 1) :
             c.out[5 * k + 1] <= MaxLine /\ c.out[5 * k + 2] <= MaxCol

\* tokens given out of order, the later one on an earlier column of a later line
C28_Witness ==
  \E i \in Entries("encodeTokens") :
    /\ Len(computed[i].in) = 3
    /\ computed[i].in[1].line = 1 /\ computed[i].in[1].col = 0
    /\ computed[i].in[2].line = 0 /\ computed[i].in[2].col = 1
    /\ computed[i].in[3].line = 0 /\ computed[i].in[3].col = 0

\* ---------------------------------------------------------------------------
\* Diagnostics
\* ---------------------------------------------------------------------------
Severities(diagnostics) == {diagnostics[k].severity : k \in 1..Len(diagnostics)}
Messages(diagnostics) == [k \in 1..Len(diagnostics) |-> diagnostics[k].message]

\* C26: computeDiagnostics reports nothing for an empty or whitespace-only
\* text; one error per parse error and nothing of the type checker when
\* parsing fails; only warnings when parsing succeeds and type-checking
\* fails; nothing otherwise; so one result never mixes severities.
C26_DiagnosticsByPhase ==
  \A i \in Entries("computeDiagnostics") :
    LET c == computed[i]
        blank == \A k \in 1..Len(c.in.content) : c.in.content[k] \in {" ", "\t", "\n", "\r"}
    IN  /\ blank => c.out = <<>>
        /\ (~blank /\ c.in.parseIssues # <<>>) =>
             /\ Messages(c.out) = c.in.parseIssues
             /\ Severities(c.out) = {SeverityError}
        /\ (~blank /\ c.in.parseIssues = <<>> /\ c.in.checkIssues # <<>>) =>
             /\ Messages(c.out) = c.in.checkIssues
             /\ Severities(c.out) = {SeverityWarning}
        /\ (~blank /\ c.in.parseIssues = <<>> /\ c.in.checkIssues = <<>>) => c.out = <<>>
        /\ Cardinality(Severities(c.out)) <= 1

\* a text with two parse errors whose tree would also fail the type check
C26_Witness ==
  \E i \in Entries("computeDiagnostics") :
    /\ computed[i].in.content = <<" ", "x", "\n">>
    /\ Len(computed[i].in.parseIssues) = 2
    /\ computed[i].in.checkIssues # <<>>
    /\ Len(computed[i].out) = 2

====
